---- MODULE Spec2Model ----
(***************************************************************************)
(* A model of the pipeline execution engine of AlexGrek/oai:               *)
(*   engine/pipelines/exec.py   PipelineExecutor                           *)
(*   engine/pipelines/query_send.py   QuerySender                          *)
(*   engine/model_picker.py     ModelPicker                                *)
(*   engine/apiclient.py        BackendAPIClient                           *)
(*   engine/waiter.py           ApiWaiter                                  *)
(*   engine/taskmaster.py       Taskmaster                                 *)
(*   storage/pipelines.py       PipelineStorage, yaml_pipeline             *)
(*                                                                         *)
(* Python strings are sequences of one-character strings, so that the      *)
(* regular expression, split, strip, lower, startswith and the JSON        *)
(* decoder are modelled by what they do to the characters.  Python values  *)
(* are records [k |-> kind, v |-> payload]; numbers are held in hundredths *)
(* (0.75 is 75, the int 1 is 100).                                         *)
(***************************************************************************)
EXTENDS Integers, Sequences, FiniteSets, TLC

(***************************************************************************)
(* Characters and strings                                                  *)
(***************************************************************************)

\* The printable ASCII characters in code point order, from 32 (space).  The
\* backquote (96) is written "bqt"; no string of the model holds one.
Ascii ==
  << " ", "!", "\"", "#", "$", "%", "&", "'", "(", ")", "*", "+", ",", "-",
     ".", "/", "0", "1", "2", "3", "4", "5", "6", "7", "8", "9", ":", ";",
     "<", "=", ">", "?", "@", "A", "B", "C", "D", "E", "F", "G", "H", "I",
     "J", "K", "L", "M", "N", "O", "P", "Q", "R", "S", "T", "U", "V", "W",
     "X", "Y", "Z", "[", "\\", "]", "^", "_", "bqt", "a", "b", "c", "d", "e",
     "f", "g", "h", "i", "j", "k", "l", "m", "n", "o", "p", "q", "r", "s",
     "t", "u", "v", "w", "x", "y", "z", "{", "|", "}", "~" >>

\* The single quote, which repr puts around a string.
SQuote == "'"

\* ord(c) - 31: the position of a character in Ascii.
Pos(c) == CHOOSE i \in 1..Len(Ascii) : Ascii[i] = c

\* "A" and "Z" sit at positions 34 and 59; the lower-case letter is 32 on.
LowerChar(c) ==
  IF Pos(c) >= Pos("A") /\ Pos(c) <= Pos("Z") THEN Ascii[Pos(c) + Pos("A") - 2] ELSE c

\* str.lower()
Lower(s) == [i \in 1..Len(s) |-> LowerChar(s[i])]

\* str.startswith(p)
StartsWith(s, p) == Len(s) >= Len(p) /\ SubSeq(s, 1, Len(p)) = p

\* p in s, for two strings
IsSubstr(p, s) ==
  \E i \in 0..(Len(s) - Len(p)) : SubSeq(s, i + 1, i + Len(p)) = p

\* s < t, for two strings: by the first index at which they differ, a proper
\* prefix being the smaller.
StrLess(s, t) ==
  LET n == IF Len(s) < Len(t) THEN Len(s) ELSE Len(t)
      differ == {i \in 1..n : s[i] # t[i]}
      d == CHOOSE i \in differ : \A j \in differ : i <= j
  IN  IF differ = {} THEN Len(s) < Len(t) ELSE Pos(s[d]) < Pos(t[d])

\* The first index >= i of character c in s, or 0.
IndexFrom(s, c, i) ==
  LET at == {j \in i..Len(s) : s[j] = c}
  IN  IF at = {} THEN 0 ELSE CHOOSE j \in at : \A k \in at : j <= k

\* str.split(c): the pieces between the occurrences of c, empty ones kept.
RECURSIVE Split(_, _)
Split(s, c) ==
  LET j == IndexFrom(s, c, 1)
  IN  IF j = 0 THEN << s >>
      ELSE << SubSeq(s, 1, j - 1) >> \o Split(SubSeq(s, j + 1, Len(s)), c)

\* str.strip(c): c removed from both ends.
RECURSIVE Strip(_, _)
Strip(s, c) ==
  IF s = <<>> THEN s
  ELSE IF Head(s) = c THEN Strip(Tail(s), c)
  ELSE IF s[Len(s)] = c THEN Strip(SubSeq(s, 1, Len(s) - 1), c)
  ELSE s

(***************************************************************************)
(* Python values                                                           *)
(***************************************************************************)

PyNone == [k |-> "null", v |-> 0]
PyBool(b) == [k |-> "bool", v |-> b]
PyInt(n) == [k |-> "int", v |-> n]
PyFloat(n) == [k |-> "float", v |-> n]
Str(s) == [k |-> "str", v |-> s]
\* A list: its items in order.
PyList(items) == [k |-> "list", v |-> items]
\* An int too large for a float (2 ** 1024 or more), held by its decimal digits.
PyHuge(digits) == [k |-> "huge", v |-> digits]
\* A dict: its keys in insertion order, and the value at each key.
Dict(ord, at) == [k |-> "map", v |-> [ord |-> ord, at |-> at]]
EmptyDict == Dict(<<>>, <<>>)

IsNumeric(x) == x.k \in {"int", "float", "bool"}
\* The number a numeric value stands for, in hundredths (True is 1).
NumOf(x) == IF x.k = "bool" THEN (IF x.v THEN 100 ELSE 0) ELSE x.v

Keys(d) == {d.v.ord[i] : i \in 1..Len(d.v.ord)}

\* d[key] = val
DictSet(d, key, val) ==
  IF key \in Keys(d)
    THEN Dict(d.v.ord, [d.v.at EXCEPT ![key] = val])
    ELSE Dict(Append(d.v.ord, key), (key :> val) @@ d.v.at)

\* The number literals of the model: text, value in hundredths, float or int.
\* Each text is the repr of its value, so that str() and float() are inverse
\* on them as they are in Python.
NumLits ==
  { [s |-> <<"0", ".", "9">>, n |-> 90, f |-> TRUE],
    [s |-> <<"0", ".", "5">>, n |-> 50, f |-> TRUE],
    [s |-> <<"0", ".", "7", "5">>, n |-> 75, f |-> TRUE],
    [s |-> <<"1", ".", "0">>, n |-> 100, f |-> TRUE],
    [s |-> <<"0", ".", "0">>, n |-> 0, f |-> TRUE],
    [s |-> <<"2", ".", "0">>, n |-> 200, f |-> TRUE],
    [s |-> <<"3", ".", "0">>, n |-> 300, f |-> TRUE],
    [s |-> <<"5", ".", "0">>, n |-> 500, f |-> TRUE],
    [s |-> <<"1", "0", ".", "0">>, n |-> 1000, f |-> TRUE],
    [s |-> <<"1">>, n |-> 100, f |-> FALSE],
    [s |-> <<"0">>, n |-> 0, f |-> FALSE],
    [s |-> <<"2">>, n |-> 200, f |-> FALSE],
    [s |-> <<"3">>, n |-> 300, f |-> FALSE],
    [s |-> <<"5">>, n |-> 500, f |-> FALSE],
    [s |-> <<"1", "0">>, n |-> 1000, f |-> FALSE] }

IsNumLit(s) == \E r \in NumLits : r.s = s
NumLit(s) == CHOOSE r \in NumLits : r.s = s
NumRepr(n, f) == (CHOOSE r \in NumLits : r.n = n /\ r.f = f).s

\* The number of decimal digits of 2 ** 1024, the least int that float()
\* rejects, and its leading digit.
HugeDigits == 309
Digits == {"0", "1", "2", "3", "4", "5", "6", "7", "8", "9"}
\* Whether the digits s, without a leading zero, write an int that float()
\* rejects; among the ints of 309 digits the model has only those that
\* start with 2 or more, which are all too large.
IsHugeLit(s) ==
  /\ Len(s) >= HugeDigits
  /\ \A i \in 1..Len(s) : s[i] \in Digits
  /\ s[1] \notin {"0", "1"}

\* a == b
RECURSIVE PyEq(_, _)
PyEq(a, b) ==
  IF IsNumeric(a) /\ IsNumeric(b) THEN NumOf(a) = NumOf(b)
  ELSE IF a.k # b.k THEN FALSE
  ELSE IF a.k = "map"
    THEN /\ Keys(a) = Keys(b)
         /\ \A key \in Keys(a) : PyEq(a.v.at[key], b.v.at[key])
  ELSE IF a.k = "list"
    THEN /\ Len(a.v) = Len(b.v)
         /\ \A i \in 1..Len(a.v) : PyEq(a.v[i], b.v[i])
  ELSE a.v = b.v

\* ", ".join(items)
RECURSIVE JoinComma(_)
JoinComma(items) ==
  IF items = <<>> THEN <<>>
  ELSE IF Len(items) = 1 THEN items[1]
  ELSE items[1] \o <<",", " ">> \o JoinComma(Tail(items))

\* str(x); a string inside a dict or a list is shown by repr, in single
\* quotes.
RECURSIVE PyStr(_)
PyStr(x) ==
  CASE x.k = "str" -> x.v
    [] x.k = "huge" -> x.v
    [] x.k = "list" ->
         LET Repr(y) == IF y.k = "str" THEN <<SQuote>> \o y.v \o <<SQuote>>
                                        ELSE PyStr(y)
         IN  <<"[">> \o JoinComma([i \in 1..Len(x.v) |-> Repr(x.v[i])]) \o <<"]">>
    [] x.k = "null" -> <<"N", "o", "n", "e">>
    [] x.k = "bool" -> IF x.v THEN <<"T", "r", "u", "e">>
                              ELSE <<"F", "a", "l", "s", "e">>
    [] x.k = "int" -> NumRepr(x.v, FALSE)
    [] x.k = "float" -> NumRepr(x.v, TRUE)
    [] x.k = "map" ->
         LET Repr(y) == IF y.k = "str" THEN <<SQuote>> \o y.v \o <<SQuote>>
                                        ELSE PyStr(y)
             Item(i) == Repr(Str(x.v.ord[i])) \o <<":", " ">>
                          \o Repr(x.v.at[x.v.ord[i]])
         IN  <<"{">> \o JoinComma([i \in 1..Len(x.v.ord) |-> Item(i)]) \o <<"}">>

(***************************************************************************)
(* json.loads, on the JSON texts of the model: objects, arrays, strings     *)
(* without escapes, true, false, null and the number literals, without     *)
(* white space                                                             *)
(***************************************************************************)

JsonFail == [ok |-> FALSE, val |-> PyNone, next |-> 0]
JsonOk(val, next) == [ok |-> TRUE, val |-> val, next |-> next]

\* Whether the characters of word stand in s from index i on.
HasAt(s, i, word) ==
  i + Len(word) - 1 <= Len(s) /\ SubSeq(s, i, i + Len(word) - 1) = word

NumChars == {"0", "1", "2", "3", "4", "5", "6", "7", "8", "9", ".", "-"}

\* The index after the longest run of number characters from i on.
NumEnd(s, i) ==
  LET stops == {j \in i..Len(s) : s[j] \notin NumChars}
  IN  IF stops = {} THEN Len(s) + 1 ELSE CHOOSE j \in stops : \A m \in stops : j <= m

RECURSIVE JsonValue(_, _)
RECURSIVE JsonElements(_, _, _, _)
RECURSIVE JsonMembers(_, _, _, _)

\* A string literal from the opening quote at index i: its text and the index
\* after the closing quote.
JsonString(s, i) ==
  LET j == IndexFrom(s, "\"", i + 1)
  IN  IF i > Len(s) \/ s[i] # "\"" \/ j = 0 THEN JsonFail
      ELSE JsonOk(Str(SubSeq(s, i + 1, j - 1)), j + 1)

\* One JSON value from index i.
JsonValue(s, i) ==
  IF i > Len(s) THEN JsonFail
  ELSE IF s[i] = "{" THEN JsonMembers(s, i + 1, EmptyDict, TRUE)
  ELSE IF s[i] = "[" THEN JsonElements(s, i + 1, <<>>, TRUE)
  ELSE IF s[i] = "\"" THEN JsonString(s, i)
  ELSE IF HasAt(s, i, <<"t", "r", "u", "e">>) THEN JsonOk(PyBool(TRUE), i + 4)
  ELSE IF HasAt(s, i, <<"f", "a", "l", "s", "e">>) THEN JsonOk(PyBool(FALSE), i + 5)
  ELSE IF HasAt(s, i, <<"n", "u", "l", "l">>) THEN JsonOk(PyNone, i + 4)
  ELSE LET j == NumEnd(s, i)
           lit == SubSeq(s, i, j - 1)
       IN  IF j > i /\ IsNumLit(lit)
             THEN JsonOk(IF NumLit(lit).f THEN PyFloat(NumLit(lit).n)
                                          ELSE PyInt(NumLit(lit).n), j)
           ELSE IF j > i /\ IsHugeLit(lit) THEN JsonOk(PyHuge(lit), j)
           ELSE JsonFail

\* The elements of an array from index i, after "[" (first) or after a ",".
JsonElements(s, i, acc, first) ==
  IF first /\ i <= Len(s) /\ s[i] = "]" THEN JsonOk(PyList(acc), i + 1)
  ELSE
    LET val == JsonValue(s, i)
    IN  IF ~val.ok \/ val.next > Len(s) THEN JsonFail
        ELSE IF s[val.next] = "," THEN JsonElements(s, val.next + 1, Append(acc, val.val), FALSE)
        ELSE IF s[val.next] = "]" THEN JsonOk(PyList(Append(acc, val.val)), val.next + 1)
        ELSE JsonFail

\* The members of an object from index i, after "{" (first) or after a ",";
\* a later member of the same name replaces the earlier one.
JsonMembers(s, i, acc, first) ==
  IF first /\ i <= Len(s) /\ s[i] = "}" THEN JsonOk(acc, i + 1)
  ELSE
    LET key == JsonString(s, i)
    IN  IF ~key.ok \/ key.next > Len(s) \/ s[key.next] # ":" THEN JsonFail
        ELSE
          LET val == JsonValue(s, key.next + 1)
              acc2 == DictSet(acc, key.val.v, val.val)
          IN  IF ~val.ok \/ val.next > Len(s) THEN JsonFail
              ELSE IF s[val.next] = "," THEN JsonMembers(s, val.next + 1, acc2, FALSE)
              ELSE IF s[val.next] = "}" THEN JsonOk(acc2, val.next + 1)
              ELSE JsonFail

\* json.loads(s): [ok |-> FALSE] stands for json.JSONDecodeError; text after
\* the value is an error too.
JsonLoads(s) ==
  LET r == JsonValue(s, 1)
  IN  IF r.ok /\ r.next = Len(s) + 1 THEN r ELSE JsonFail

(***************************************************************************)
(* PipelineExecutor: the pure parts                                        *)
(***************************************************************************)

\* _lookup_path: the value reached from data along the keys of path, or None
\* when a key is missing or the value at hand is not a dict.
RECURSIVE Walk(_, _)
Walk(cur, keys) ==
  IF keys = <<>> THEN cur
  ELSE IF cur.k = "map" /\ Head(keys) \in Keys(cur) THEN Walk(cur.v.at[Head(keys)], Tail(keys))
  ELSE PyNone

_lookup_path(data, path) == Walk(data, Split(path, "."))

\* float(value): the float, or the exception raised: ValueError for a string
\* that writes no number, OverflowError for an int too large, TypeError for
\* any other value that is no number.
ToFloat(value) ==
  IF IsNumeric(value) THEN [ok |-> TRUE, val |-> PyFloat(NumOf(value)), exc |-> "none"]
  ELSE IF value.k = "str" /\ IsNumLit(value.v)
    THEN [ok |-> TRUE, val |-> PyFloat(NumLit(value.v).n), exc |-> "none"]
  ELSE IF value.k = "str" THEN [ok |-> FALSE, val |-> PyNone, exc |-> "ValueError"]
  ELSE IF value.k = "huge" THEN [ok |-> FALSE, val |-> PyNone, exc |-> "OverflowError"]
  ELSE [ok |-> FALSE, val |-> PyNone, exc |-> "TypeError"]

\* What a function gives when it raises exc instead of returning a value.
Raising(exc) == [k |-> "raise", v |-> exc]

TrueWords == { <<"t", "r", "u", "e">>, <<"1">>, <<"y", "e", "s">> }

\* A faulty cast that compares str(value) as it is, without lower().
_cast_type_as_is(value, target_type) ==
  IF target_type = "number"
    THEN IF ToFloat(value).ok THEN ToFloat(value).val
         ELSE IF ToFloat(value).exc \in {"ValueError", "TypeError"} THEN PyFloat(0)
         ELSE Raising(ToFloat(value).exc)
  ELSE IF target_type = "boolean"
    THEN PyBool(PyStr(value) \in TrueWords)
  ELSE value

\* _cast_type; target_type is "number", "boolean", "string" or "none".  The
\* except clause takes ValueError and TypeError; any other exception of
\* float() leaves the function.
_cast_type(value, target_type) ==
  IF target_type = "number"
    THEN IF ToFloat(value).ok THEN ToFloat(value).val
         ELSE IF ToFloat(value).exc \in {"ValueError", "TypeError"} THEN PyFloat(0)
         ELSE Raising(ToFloat(value).exc)
  ELSE IF target_type = "boolean"
    THEN PyBool(Lower(PyStr(value)) \in TrueWords)
  ELSE value

\* a is b, as the set of the answers an interpreter may give.  True, False and
\* None are single objects.  A context value and a literal of the pipeline are
\* otherwise two objects, except that an interpreter may share equal ints and
\* equal strings (small-int cache, interning).
Identical(a, b) ==
  IF a.k \in {"bool", "null"} \/ b.k \in {"bool", "null"} THEN {a = b}
  ELSE IF a.k = b.k /\ a.k \in {"int", "str"} /\ a = b THEN {TRUE, FALSE}
  ELSE {FALSE}

OpNames == {"gt", "lt", "eq", "is", "is_not", "contains"}

TypeError == [raised |-> TRUE, res |-> {}]
Result(r) == [raised |-> FALSE, res |-> r]

\* A faulty order of numbers: that of their texts.
NumLessAsText(a, b) == StrLess(PyStr(a), PyStr(b))

\* a < b for two numbers, of which either may be an int too large for a
\* float: such an int is above every other number, and two of them compare
\* by their digits.
NumLess(a, b) ==
  IF a.k = "huge" /\ b.k = "huge"
    THEN Len(a.v) < Len(b.v) \/ (Len(a.v) = Len(b.v) /\ StrLess(a.v, b.v))
  ELSE IF a.k = "huge" THEN FALSE
  ELSE IF b.k = "huge" THEN TRUE
  ELSE NumOf(a) < NumOf(b)

\* The table ops of _evaluate_single_condition, applied to two values: the
\* possible results, or TypeError.  Two lists compare by their first items
\* that are not equal, or by their lengths; b in a is a substring test for a
\* string, a test of the keys for a dict (b must be hashable) and of the
\* items for a list.
RECURSIVE ops(_, _, _)
ops(op, a, b) ==
  LET number(x) == IsNumeric(x) \/ x.k = "huge"
      differ == {i \in 1..Len(a.v) : i <= Len(b.v) /\ ~PyEq(a.v[i], b.v[i])}
      d == CHOOSE i \in differ : \A j \in differ : i <= j
  IN
  CASE op = "gt" ->
         IF number(a) /\ number(b) THEN Result({NumLess(b, a)})
         ELSE IF a.k = "str" /\ b.k = "str" THEN Result({StrLess(b.v, a.v)})
         ELSE IF a.k = "list" /\ b.k = "list"
           THEN IF differ = {} THEN Result({Len(a.v) > Len(b.v)})
                ELSE ops(op, a.v[d], b.v[d])
         ELSE TypeError
    [] op = "lt" ->
         IF number(a) /\ number(b) THEN Result({NumLess(a, b)})
         ELSE IF a.k = "str" /\ b.k = "str" THEN Result({StrLess(a.v, b.v)})
         ELSE IF a.k = "list" /\ b.k = "list"
           THEN IF differ = {} THEN Result({Len(a.v) < Len(b.v)})
                ELSE ops(op, a.v[d], b.v[d])
         ELSE TypeError
    [] op = "eq" -> Result({PyEq(a, b)})
    [] op = "is" -> Result(Identical(a, b))
    [] op = "is_not" -> Result({~r : r \in Identical(a, b)})
    [] op = "contains" ->
         IF a.k = "str" THEN (IF b.k = "str" THEN Result({IsSubstr(b.v, a.v)})
                                             ELSE TypeError)
         ELSE IF a.k = "map" THEN (IF b.k \in {"map", "list"} THEN TypeError
                                   ELSE Result({b.k = "str" /\ b.v \in Keys(a)}))
         ELSE IF a.k = "list" THEN Result({\E i \in 1..Len(a.v) : PyEq(a.v[i], b)})
         ELSE TypeError

\* The base comparison of a condition: the lines from the lookup of a to the
\* fall back on the string forms.
BaseResult(context, condition) ==
  LET val_a == _lookup_path(context, condition.a)
      val_b == condition.b
  IN  IF val_a = PyNone \/ condition.op \notin OpNames THEN {FALSE}
      ELSE IF ~ops(condition.op, val_a, val_b).raised
        THEN ops(condition.op, val_a, val_b).res
      ELSE ops(condition.op, Str(PyStr(val_a)), Str(PyStr(val_b))).res

\* A faulty comparison without the except clause: the TypeError of the
\* operator leaves it.
BaseRaisesUncaught(context, condition) ==
  /\ _lookup_path(context, condition.a) # PyNone
  /\ condition.op \in OpNames
  /\ ops(condition.op, _lookup_path(context, condition.a), condition.b).raised

\* Whether the base comparison raises: the operator raised TypeError and
\* raises again on the string forms, outside the try statement.
BaseRaises(context, condition) ==
  LET val_a == _lookup_path(context, condition.a)
      val_b == condition.b
  IN  /\ val_a # PyNone
      /\ condition.op \in OpNames
      /\ ops(condition.op, val_a, val_b).raised
      /\ ops(condition.op, Str(PyStr(val_a)), Str(PyStr(val_b))).raised

\* all(results) and any(results) over the possible results of each member.
AllOf(sets) ==
  {r \in BOOLEAN : IF r THEN \A i \in DOMAIN sets : TRUE \in sets[i]
                        ELSE \E i \in DOMAIN sets : FALSE \in sets[i]}
AnyOf(sets) ==
  {r \in BOOLEAN : IF r THEN \E i \in DOMAIN sets : TRUE \in sets[i]
                        ELSE \A i \in DOMAIN sets : FALSE \in sets[i]}

\* A faulty evaluation that stops at the base comparison.
_evaluate_single_condition_flat(context, condition) == BaseResult(context, condition)

\* _evaluate_single_condition: the possible results.  A condition is
\* [a, op, b, and_, or_]; a missing or empty list is <<>>.
RECURSIVE _evaluate_single_condition(_, _)
_evaluate_single_condition(context, condition) ==
  UNION { IF result /\ condition.and_ # <<>>
            THEN AllOf([i \in DOMAIN condition.and_ |->
                          _evaluate_single_condition(context, condition.and_[i])])
          ELSE IF ~result /\ condition.or_ # <<>>
            THEN AnyOf([i \in DOMAIN condition.or_ |->
                          _evaluate_single_condition(context, condition.or_[i])])
          ELSE {result}
        : result \in BaseResult(context, condition) }

\* Whether a call of _evaluate_single_condition may raise: its base
\* comparison does, or a nested condition that it evaluates does.
RECURSIVE _evaluate_single_condition_raises(_, _)
_evaluate_single_condition_raises(context, condition) ==
  \/ BaseRaises(context, condition)
  \/ \E result \in BaseResult(context, condition) :
       \/ /\ result /\ condition.and_ # <<>>
          /\ \E i \in DOMAIN condition.and_ :
               _evaluate_single_condition_raises(context, condition.and_[i])
       \/ /\ ~result /\ condition.or_ # <<>>
          /\ \E i \in DOMAIN condition.or_ :
               _evaluate_single_condition_raises(context, condition.or_[i])

\* A faulty gate that lets a step run when any of its conditions holds.
_evaluate_conditions_any(context, conditions) ==
  IF conditions = <<>> THEN {TRUE}
  ELSE AnyOf([i \in DOMAIN conditions |->
                _evaluate_single_condition(context, conditions[i])])

\* _evaluate_conditions: the possible results for a step's if list.
_evaluate_conditions(context, conditions) ==
  IF conditions = <<>> THEN {TRUE}
  ELSE AllOf([i \in DOMAIN conditions |->
                _evaluate_single_condition(context, conditions[i])])

\* The index of the "}" that closes a placeholder opened by "${" at index i:
\* at least one character other than "}" lies between.  0 when there is none.
PlaceholderEnd(template, i) ==
  LET j == IndexFrom(template, "}", i + 2)
  IN  IF HasAt(template, i, <<"$", "{">>) /\ j > i + 2 THEN j ELSE 0

\* re.sub over the template from index i: the leftmost matches, left to right;
\* the text between them is kept, and the text put in for a match is not
\* scanned again.
RECURSIVE SubstituteFrom(_, _, _)
SubstituteFrom(context, template, i) ==
  LET starts == {m \in i..Len(template) : PlaceholderEnd(template, m) # 0}
      m == CHOOSE m \in starts : \A k \in starts : m <= k
      j == PlaceholderEnd(template, m)
      value == _lookup_path(context, SubSeq(template, m + 2, j - 1))
  IN  IF starts = {} THEN SubSeq(template, i, Len(template))
      ELSE SubSeq(template, i, m - 1)
             \o (IF value # PyNone THEN PyStr(value) ELSE <<>>)
             \o SubstituteFrom(context, template, j + 1)

\* A faulty substitution that replaces the first placeholder only.
_substitute_variables_first(context, template) ==
  LET starts == {m \in 1..Len(template) : PlaceholderEnd(template, m) # 0}
      m == CHOOSE m \in starts : \A k \in starts : m <= k
      j == PlaceholderEnd(template, m)
      value == _lookup_path(context, SubSeq(template, m + 2, j - 1))
  IN  IF starts = {} THEN template
      ELSE SubSeq(template, 1, m - 1)
             \o (IF value # PyNone THEN PyStr(value) ELSE <<>>)
             \o SubSeq(template, j + 1, Len(template))

\* A faulty substitution that scans its own result once more.
_substitute_variables_twice(context, template) ==
  SubstituteFrom(context, SubstituteFrom(context, template, 1), 1)

_substitute_variables(context, template) == SubstituteFrom(context, template, 1)

\* A faulty rule that produces the empty text where it finds no value.
RuleValueOrEmpty(rule, response, data_to_parse) ==
  IF rule.fulltext THEN Str(response)
  ELSE IF rule.jq # <<>> /\ data_to_parse # PyNone
            /\ rule.jq # <<".">>
            /\ _lookup_path(data_to_parse, Strip(rule.jq, ".")) # PyNone
    THEN _lookup_path(data_to_parse, Strip(rule.jq, "."))
  ELSE IF rule.jq = <<".">> /\ data_to_parse # PyNone THEN data_to_parse
  ELSE Str(<<>>)

\* The value an extraction rule produces, None when it produces none.  A rule
\* is [name, jq, fulltext, type]; a missing jq is <<>>.
RuleValue(rule, response, data_to_parse) ==
  IF rule.fulltext THEN Str(response)
  ELSE IF rule.jq # <<>> /\ data_to_parse # PyNone
    THEN IF rule.jq = <<".">> THEN data_to_parse
         ELSE _lookup_path(data_to_parse, Strip(rule.jq, "."))
  ELSE PyNone

\* A faulty write that starts the context afresh with the rule's key.
ContextSetAfresh(context, name, value) == Dict(<<name>>, name :> value)

\* A faulty write that keeps the value a key has already.
ContextSetDefault(context, name, value) ==
  IF name \in Keys(context) THEN context ELSE DictSet(context, name, value)

\* self.context[rule.name] = value
ContextSet(context, name, value) == DictSet(context, name, value)

\* The loop over the rules of _extract_data, from rule i on: the context it
\* leaves, and the exception that ended it ("none": it ran to its end).
RECURSIVE ApplyRules(_, _, _, _, _)
ApplyRules(context, rules, i, response, data_to_parse) ==
  IF i > Len(rules) THEN [ctx |-> context, exc |-> "none"]
  ELSE LET value == RuleValue(rules[i], response, data_to_parse)
           cast == _cast_type(value, rules[i].type)
       IN  IF value = PyNone
             THEN ApplyRules(context, rules, i + 1, response, data_to_parse)
           ELSE IF cast.k = "raise" THEN [ctx |-> context, exc |-> cast.v]
           ELSE ApplyRules(ContextSet(context, rules[i].name, cast), rules, i + 1,
                           response, data_to_parse)

\* A faulty extraction that writes nothing when a rule of type number finds
\* a value that float() rejects.
_extract_data_abandons(context, response, rules, is_json_response) ==
  LET data_to_parse == IF is_json_response /\ JsonLoads(response).ok
                         THEN JsonLoads(response).val ELSE PyNone
      fails(i) == /\ rules[i].type = "number"
                  /\ RuleValue(rules[i], response, data_to_parse) # PyNone
                  /\ ~ToFloat(RuleValue(rules[i], response, data_to_parse)).ok
  IN  IF (is_json_response /\ ~JsonLoads(response).ok) \/ \E i \in 1..Len(rules) : fails(i)
        THEN context
        ELSE ApplyRules(context, rules, 1, response, data_to_parse).ctx

\* A faulty extraction that goes on to the rules when the text is not JSON.
_extract_data_goes_on(context, response, rules, is_json_response) ==
  ApplyRules(context, rules, 1, response,
             IF is_json_response /\ JsonLoads(response).ok THEN JsonLoads(response).val
                                                            ELSE PyNone).ctx

\* _extract_data: the context after the rules have been applied to response.
_extract_data(context, response, rules, is_json_response) ==
  IF is_json_response /\ ~JsonLoads(response).ok THEN context
  ELSE ApplyRules(context, rules, 1, response,
                  IF is_json_response THEN JsonLoads(response).val ELSE PyNone).ctx

\* The exception that _extract_data raises on these arguments, "none" when
\* it returns.
_extract_data_raises(context, response, rules, is_json_response) ==
  IF is_json_response /\ ~JsonLoads(response).ok THEN "none"
  ELSE ApplyRules(context, rules, 1, response,
                  IF is_json_response THEN JsonLoads(response).val ELSE PyNone).exc

(***************************************************************************)
(* Strings of the program                                                  *)
(***************************************************************************)

s_input == <<"i", "n", "p", "u", "t">>
s_status == <<"s", "t", "a", "t", "u", "s">>
s_output == <<"o", "u", "t", "p", "u", "t">>
s_message == <<"m", "e", "s", "s", "a", "g", "e">>
s_content == <<"c", "o", "n", "t", "e", "n", "t">>
s_id == <<"i", "d">>
s_cap == <<"c", "a", "p">>
\* The prefix of a capability that serves a model.
LLMPrefix == <<"L", "L", "M", ":", ":">>
\* A faulty list of statuses, without canceled.
TerminalStatusesShort == { <<"c", "o", "m", "p", "l", "e", "t", "e", "d">>,
                           <<"f", "a", "i", "l", "e", "d">> }
\* The statuses that end a wait.
TerminalStatuses == { <<"c", "o", "m", "p", "l", "e", "t", "e", "d">>, <<"f", "a", "i", "l",
    "e", "d">>, <<"c", "a", "n", "c", "e", "l", "e", "d">> }

(***************************************************************************)
(* Pipelines                                                               *)
(***************************************************************************)

NoMessage == [present |-> FALSE, system |-> <<>>, user |-> <<>>]
Message(system, user) == [present |-> TRUE, system |-> system, user |-> user]
Rule(name, jq, fulltext, type) ==
  [name |-> name, jq |-> jq, fulltext |-> fulltext, type |-> type]
Cond(a, op, b, and_, or_) == [a |-> a, op |-> op, b |-> b, and_ |-> and_, or_ |-> or_]

\* yaml_pipeline, the pipeline PipelineStorage.get_pipeline hands out.
YamlStep1 ==
  [ action |-> "query", if_condition |-> <<>>, json |-> TRUE,
    model |-> "any", lang |-> "en",
    message |-> Message(
      <<"Y", "o", "u", " ", "a", "r", "e", " ", "a", " ", "l", "o", "g", "s", " ", "a", "n",
          "a", "l", "y", "z", "e", "r", ".", " ", "R", "e", "t", "u", "r", "n", " ", "a", " ",
          "J", "S", "O", "N", " ", "w", "i", "t", "h", " ", "3", " ", "f", "i", "e", "l", "d",
          "s", ":", " ", "{", "s", "u", "s", "p", "i", "c", "i", "o", "u", "s", ":", " ", "f",
          "l", "o", "a", "t", "[", "0", "-", "1", "]", ",", " ", "s", "e", "c", "u", "r", "i",
          "t", "y", "_", "r", "i", "s", "k", ":", " ", "b", "o", "o", "l", "e", "a", "n", ",",
          " ", "r", "e", "a", "s", "o", "n", ":", " ", "s", "t", "r", "i", "n", "g", "}">>,
      <<"A", "n", "a", "l", "y", "z", "e", " ", "l", "o", "g", " ", "l", "i", "n", "e", ":",
          " ", "'", "$", "{", "i", "n", "p", "u", "t", "}", "'">>),
    extract |-> <<
      Rule(<<"r", "e", "s", "u", "l", "t", "_", "a", "l", "l">>, <<".">>, FALSE, "none"),
      Rule(<<"s", "e", "c", "_", "r", "i", "s", "k">>, <<".", "s", "e", "c", "u", "r", "i", "t",
          "y", "_", "r", "i", "s", "k">>, FALSE, "boolean"),
      Rule(<<"s", "u", "s", "p", "i", "c", "i", "o", "u", "s", "_", "c", "o", "e", "f">>, <<".",
          "s", "u", "s", "p", "i", "c", "i", "o", "u", "s">>, FALSE, "number") >> ]

YamlStep2 ==
  [ action |-> "query",
    if_condition |-> <<
      Cond(<<"s", "u", "s", "p", "i", "c", "i", "o", "u", "s", "_", "c", "o", "e", "f">>, "gt",
          PyFloat(75),
           << Cond(<<"s", "e", "c", "_", "r", "i", "s", "k">>, "is", PyBool(TRUE), <<>>,
               <<>>) >>, <<>>) >>,
    json |-> FALSE, model |-> "any/strong", lang |-> "none",
    message |-> Message(
      <<"Y", "o", "u", " ", "a", "r", "e", " ", "a", " ", "h", "e", "l", "p", "f", "u", "l",
          " ", "a", "s", "s", "i", "s", "t", "a", "n", "t">>,
      <<"Y", "o", "u", " ", "h", "a", "v", "e", " ", "g", "o", "t", " ", "a", " ", "l", "o",
          "g", " ", "l", "i", "n", "e", ":", " ", "$", "{", "i", "n", "p", "u", "t", "}", ".",
          " ", "A", "n", "o", "t", "h", "e", "r", " ", "L", "L", "M", " ", "t", "h", "i", "n",
          "k", "s", " ", "t", "h", "a", "t", " ", "t", "h", "i", "s", " ", "i", "s", " ", "s",
          "u", "s", "p", "i", "c", "i", "o", "u", "s", " ", "b", "e", "c", "a", "u", "s", "e",
          " ", "o", "f", " ", "s", "e", "c", "u", "r", "i", "t", "y", " ", "r", "i", "s", "k",
          " ", "a", "n", "d", " ", "s", "a", "y", "s", ":", " ", "$", "{", "r", "e", "s", "u",
          "l", "t", "_", "a", "l", "l", ".", "r", "e", "a", "s", "o", "n", "}", ".", " ", "W",
          "h", "a", "t", " ", "d", "o", " ", "y", "o", "u", " ", "t", "h", "i", "n", "k", "?",
          " ", "E", "x", "p", "l", "a", "i", "n", ".">>),
    extract |-> << Rule(<<"e", "x", "p", "e", "r", "t", "_", "r", "e", "s", "p", "o", "n", "s",
        "e">>, <<>>, TRUE, "none") >> ]

yaml_pipeline == [name |-> "My lovely LLM pipeline", steps |-> <<YamlStep1, YamlStep2>>]

(***************************************************************************)
(* The pipelines, the inputs and the answers of the backend the model      *)
(* draws from                                                              *)
(***************************************************************************)

s_score == <<"s", "c", "o", "r", "e">>
s_flag == <<"f", "l", "a", "g">>
s_verdict == <<"v", "e", "r", "d", "i", "c", "t">>
s_summary == <<"s", "u", "m", "m", "a", "r", "y">>

\* Step 1 of the end-to-end example: a number and a boolean out of a JSON answer.
ScoreStep1 ==
  [ action |-> "query", if_condition |-> <<>>, json |-> TRUE,
    model |-> "any", lang |-> "en",
    message |-> Message(<<"R", "a", "t", "e", ".">>, <<"L", "i", "n", "e", ":", " ", "$", "{",
        "i", "n", "p", "u", "t", "}">>),
    extract |-> << Rule(s_score, <<".", "s", "c", "o", "r", "e">>, FALSE, "number"),
                   Rule(s_flag, <<".", "f", "l", "a", "g">>, FALSE, "boolean") >> ]

\* Step 2 of the example: gated on score > 0.75 and flag is true.
ScoreStep2 ==
  [ action |-> "query",
    if_condition |-> <<
      Cond(s_score, "gt", PyFloat(75),
           << Cond(s_flag, "is", PyBool(TRUE), <<>>, <<>>) >>, <<>>) >>,
    json |-> FALSE, model |-> "any/strong", lang |-> "none",
    message |-> Message(<<"J", "u", "d", "g", "e", ".">>, <<"$", "{", "i", "n", "p", "u", "t",
        "}", " ", "s", "c", "o", "r", "e", "d", " ", "$", "{", "s", "c", "o", "r", "e", "}">>),
    extract |-> << Rule(s_verdict, <<>>, TRUE, "none") >> ]

\* An ungated step that follows the gated one.
SummaryStep ==
  [ action |-> "query", if_condition |-> <<>>, json |-> FALSE,
    model |-> "any", lang |-> "none",
    message |-> Message(<<"S", "u", "m", " ", "u", "p", ".">>, <<"$", "{", "i", "n", "p", "u",
        "t", "}", ":", " ", "$", "{", "v", "e", "r", "d", "i", "c", "t", "}">>),
    extract |-> << Rule(s_summary, <<>>, TRUE, "none") >> ]

\* A step whose action is not "query", gated on the input, and a query step
\* without a message.
NotifyStep ==
  [ action |-> "notify",
    if_condition |-> << Cond(s_input, "contains", Str(<<"p">>), <<>>, <<>>) >>,
    json |-> FALSE,
    model |-> "none", lang |-> "none", message |-> NoMessage, extract |-> <<>> ]
SilentStep ==
  [ action |-> "query", if_condition |-> <<>>, json |-> FALSE,
    model |-> "any", lang |-> "none", message |-> NoMessage,
    extract |-> << Rule(s_summary, <<>>, TRUE, "none") >> ]

ScorePipeline == [name |-> "score", steps |-> <<ScoreStep1, ScoreStep2>>]
ThreeStepPipeline == [name |-> "three", steps |-> <<ScoreStep1, ScoreStep2, SummaryStep>>]
MiscPipeline == [name |-> "misc", steps |-> <<NotifyStep, SilentStep, ScoreStep1>>]

\* A json step with a fulltext rule before rules with a path, two of them
\* typed number.
s_big == <<"b", "i", "g">>
s_raw == <<"r", "a", "w">>
s_all == <<"a", "l", "l">>
MixedStep ==
  [ action |-> "query", if_condition |-> <<>>, json |-> TRUE,
    model |-> "any", lang |-> "none",
    message |-> Message(<<"R", "a", "t", "e", ".">>, <<"$", "{", "i", "n", "p", "u", "t", "}">>),
    extract |-> << Rule(s_raw, <<>>, TRUE, "none"),
                   Rule(s_score, <<".", "s", "c", "o", "r", "e">>, FALSE, "number"),
                   Rule(s_all, <<".">>, FALSE, "none"),
                   Rule(s_flag, <<".", "f", "l", "a", "g">>, FALSE, "boolean"),
                   Rule(s_big, <<".", "b", "i", "g">>, FALSE, "number") >> ]
MixedPipeline == [name |-> "mixed", steps |-> <<MixedStep, SummaryStep>>]

Pipelines == {yaml_pipeline, ScorePipeline, ThreeStepPipeline, MiscPipeline, MixedPipeline}

\* The caller's inputs.
InputA == <<"G", "E", "T", " ", "/", "a", "d", "m", "i", "n">>
InputB == <<"p", "i", "n", "g">>
Inputs == {InputA, InputB}

\* The texts a model may answer with.
TextHigh == <<"{", "\"", "s", "c", "o", "r", "e", "\"", ":", "0", ".", "9", ",", "\"", "f", "l",
    "a", "g", "\"", ":", "t", "r", "u", "e", "}">>
TextLow == <<"{", "\"", "s", "c", "o", "r", "e", "\"", ":", "0", ".", "5", ",", "\"", "f", "l",
    "a", "g", "\"", ":", "t", "r", "u", "e", "}">>
TextUnflagged == <<"{", "\"", "s", "c", "o", "r", "e", "\"", ":", "0", ".", "9", ",", "\"", "f",
    "l", "a", "g", "\"", ":", "f", "a", "l", "s", "e", "}">>
TextYaml == <<"{", "\"", "s", "u", "s", "p", "i", "c", "i", "o", "u", "s", "\"", ":", "0", ".",
    "9", ",", "\"", "s", "e", "c", "u", "r", "i", "t", "y", "_", "r", "i", "s", "k", "\"", ":",
    "t", "r", "u", "e", ",", "\"", "r", "e", "a", "s", "o", "n", "\"", ":", "\"", "s", "q", "l",
    "i", "\"", "}">>
TextCut == <<"{", "\"", "s", "c", "o", "r", "e", "\"", ":", "0", ".", "9">>
TextPlain == <<"f", "i", "n", "e">>
\* A score that is no number, and one that is an int too large for a float.
TextWordy == <<"{", "\"", "s", "c", "o", "r", "e", "\"", ":", "\"", "h", "i", "g", "h", "\"", ",", "\"", "f", "l", "a", "g", "\"", ":", "t", "r", "u", "e", "}">>
TextHuge ==
  <<"{", "\"", "f", "l", "a", "g", "\"", ":", "t", "r", "u", "e", ",", "\"", "s", "c", "o", "r", "e", "\"", ":">> \o [i \in 1..HugeDigits |-> IF i = 1 THEN "2" ELSE "0"] \o <<"}">>
\* A score that is no number before an int too large for a float.
TextBoth ==
  <<"{", "\"", "s", "c", "o", "r", "e", "\"", ":", "\"", "h", "i", "g", "h", "\"", ",", "\"", "b", "i", "g", "\"", ":">> \o [i \in 1..HugeDigits |-> IF i = 1 THEN "2" ELSE "0"] \o <<"}">>
Texts ==
  { TextHigh, TextLow, TextUnflagged, TextYaml, TextCut, TextPlain, TextWordy, TextHuge,
    TextBoth }

\* What the capabilities endpoint may answer: a list of labels, or an error status.
CapsAnswers ==
  { [ok |-> FALSE, caps |-> <<>>],
    [ok |-> TRUE, caps |-> <<>>],
    [ok |-> TRUE, caps |-> << <<"T", "T", "S", ":", ":", "k">> >>],
    [ok |-> TRUE, caps |-> << <<"T", "T", "S", ":", ":", "k">>, <<"L", "L", "M", ":", ":",
        "m">>, <<"L", "L", "M", ":", ":", "n">> >>] }

\* What the submit endpoint may answer to a submission for capability cap
\* that the backend files under id: an error status, or the pair the task is
\* to be polled under, with the capability as submitted or as the backend
\* names it.
Refused == [ok |-> FALSE, task |-> [cap |-> <<>>, id |-> 0]]
Accepted(cap, id) == [ok |-> TRUE, task |-> [cap |-> cap, id |-> id]]
SubmitAnswers(cap, id) ==
  { Refused, Accepted(cap, id), Accepted(<<"L", "L", "M", ":", ":", "n">>, id) }

\* A poll payload: a dict with the given status (None: no status key) and,
\* when text is not None, output.message.content = text.
Payload(status, text) ==
  LET withStatus == IF status = PyNone THEN EmptyDict
                    ELSE DictSet(EmptyDict, s_status, status)
      output == Dict(<<s_message>>,
                     s_message :> Dict(<<s_content>>, s_content :> text))
  IN  IF text = PyNone THEN withStatus ELSE DictSet(withStatus, s_output, output)

\* What the poll endpoint may answer.  kind is "json" for a success status
\* with a JSON body (data), else the fault: an error status, a failed
\* request, a body that is not JSON.
JsonAnswer(data) == [kind |-> "json", data |-> data]
Fault(kind) == [kind |-> kind, data |-> PyNone]

PendingAnswers ==
  { Fault("http_status"), Fault("request"), Fault("not_json"),
    JsonAnswer(Payload(Str(<<"p", "r", "o", "c", "e", "s", "s", "i", "n", "g">>), PyNone)),
    JsonAnswer(Payload(PyNone, PyNone)),
    JsonAnswer(Payload(PyInt(0), PyNone)) }

TerminalAnswers ==
  { JsonAnswer(Payload(Str(<<"c", "o", "m", "p", "l", "e", "t", "e", "d">>),
      Str(t))) : t \in Texts }
    \cup { JsonAnswer(Payload(Str(<<"C", "O", "M", "P", "L", "E", "T", "E", "D">>), Str(TextHigh))),
           JsonAnswer(Payload(Str(<<"f", "a", "i", "l", "e", "d">>), PyNone)),
           JsonAnswer(Payload(Str(<<"f", "a", "i", "l", "e", "d">>), Str(TextLow))),
           JsonAnswer(Payload(Str(<<"c", "a", "n", "c", "e", "l", "e", "d">>), Str(TextPlain))) }

PollAnswers == PendingAnswers \cup TerminalAnswers

(***************************************************************************)
(* The state                                                               *)
(***************************************************************************)

\* The most polls the model lets one wait issue.
MaxPolls == 3

\* The requests made of Taskmaster.new_request.
Execs == {"e1", "e2"}

VARIABLES
  pipeline,   \* the pipeline PipelineStorage hands to every request
  input,      \* input[e]: the input of request e
  pc,         \* pc[e]: where request e stands
  idx,        \* idx[e]: the index of the step at hand, from 1
  context,    \* context[x]: self.context of executor x
  query,      \* query[e]: the arguments of the QuerySender.execute call under way
  waiter,     \* waiter[e]: the (capability, task id) the ApiWaiter of e polls
  tasks,      \* the backend: the tasks submitted so far, by task id, each with
              \* its submission, the request and step it is for and the
              \* payload its wait ended with (None before)
  result,     \* result[e]: what execute returned, None before
  err,        \* err[e]: the exception that ended e, "none" before
  stepState,  \* stepState[e][i]: what has become of step i       (history)
  visits,     \* visits[e][i]: how often step i was entered       (history)
  ncaps,      \* ncaps[e][i]: capabilities queries sent for step i (history)
  nsubmit,    \* nsubmit[e][i]: submissions sent for step i        (history)
  polled,     \* polled[e]: the steps a poll was sent for          (history)
  polls,      \* polls[e]: polls sent in the wait at hand          (history)
  seen,       \* seen[e]: answers to them, by kind                 (history)
  lastAnswer, \* lastAnswer[e]: the latest answer to a poll        (history)
  returned,   \* returned[e]: what wait_for_status returned, None before
  merged,     \* merged[x]: the tasks whose answer was extracted into context[x]
  call,       \* a call of one function of the program by itself: its name
              \* and arguments
  retval,     \* what that call returned or raised, NoReturn before
  gather,     \* gather[p]: the evaluation of the condition at place p of the
              \* tree of a gate under way, NoGather before
  heard       \* heard[e]: the latest answers to a capabilities query and
              \* to a submission, with the (capability, task id) pair
              \* the latter carried                              (history)

vars == << pipeline, input, pc, idx, context, query, waiter, tasks, result, err,
           stepState, visits, ncaps, nsubmit, polled, polls, seen, lastAnswer,
           returned, merged, heard, call, retval, gather >>

\* A faulty Taskmaster that keeps one PipelineExecutor for all requests.
ExecutorOfShared(e) == "e1"

\* Taskmaster.new_request builds a PipelineExecutor of its own for each request.
ExecutorOf(e) == e

Steps == pipeline.steps
NoQuery ==
  [ model |-> "none", lang |-> "none", json |-> FALSE, system |-> <<>>, user |-> <<>>,
    picked |-> <<>> ]
NoWaiter == [cap |-> <<>>, id |-> 0]
NothingHeard == [caps |-> "none", available |-> <<>>, submit |-> "none", task |-> NoWaiter]
NoAnswer == Fault("none")
NothingSeen == [pending |-> 0, failed |-> 0, terminal |-> 0]

NoCall == [fn |-> "none"]
NoGather == <<>>
NoReturn == [done |-> FALSE]
\* A call that returned value, and one that raised exc.
Returned(value) == [done |-> TRUE, raised |-> "none", value |-> value]
Raised(exc) == [done |-> TRUE, raised |-> exc, value |-> PyNone]

\* No request has come in: every executor slot is empty.
InitWith(pipelines, inputs) ==
  /\ pipeline \in pipelines
  /\ input \in inputs
  /\ pc = [e \in Execs |-> IF input[e] = <<>> THEN "absent" ELSE "idle"]
  /\ idx = [e \in Execs |-> 0]
  /\ context = [e \in Execs |-> EmptyDict]
  /\ query = [e \in Execs |-> NoQuery]
  /\ waiter = [e \in Execs |-> NoWaiter]
  /\ tasks = <<>>
  /\ result = [e \in Execs |-> PyNone]
  /\ err = [e \in Execs |-> "none"]
  /\ stepState = [e \in Execs |-> [i \in 1..Len(pipeline.steps) |-> "pending"]]
  /\ visits = [e \in Execs |-> [i \in 1..Len(pipeline.steps) |-> 0]]
  /\ ncaps = [e \in Execs |-> [i \in 1..Len(pipeline.steps) |-> 0]]
  /\ nsubmit = [e \in Execs |-> [i \in 1..Len(pipeline.steps) |-> 0]]
  /\ polled = [e \in Execs |-> {}]
  /\ polls = [e \in Execs |-> 0]
  /\ seen = [e \in Execs |-> NothingSeen]
  /\ lastAnswer = [e \in Execs |-> NoAnswer]
  /\ returned = [e \in Execs |-> PyNone]
  /\ merged = [e \in Execs |-> {}]
  /\ heard = [e \in Execs |-> NothingHeard]

\* One request, of any pipeline, with any input.
Init ==
  /\ InitWith(Pipelines, {[e \in Execs |-> IF e = "e1" THEN i ELSE <<>>] : i \in Inputs})
  /\ call = NoCall
  /\ retval = NoReturn
  /\ gather = NoGather

\* Two requests of the stored pipeline with distinct inputs.
InitConc ==
  /\ InitWith({yaml_pipeline}, {[e \in Execs |-> IF e = "e1" THEN InputA ELSE InputB]})
  /\ call = NoCall
  /\ retval = NoReturn
  /\ gather = NoGather

(***************************************************************************)
(* ModelPicker, BackendAPIClient, ApiWaiter                                *)
(***************************************************************************)

NoModel == <<>>

\* [x for x in available if x.startswith("LLM::")]
RECURSIVE Usable(_)
Usable(available) ==
  IF available = <<>> THEN <<>>
  ELSE (IF StartsWith(Head(available), LLMPrefix) THEN <<Head(available)>> ELSE <<>>)
         \o Usable(Tail(available))

\* A faulty picker that takes the first capability, whatever its prefix.
consider_model_any(request, lang, available) ==
  IF Len(available) > 0 THEN available[1] ELSE NoModel

\* A faulty picker that takes the last usable capability.
consider_model_last(request, lang, available) ==
  IF Len(Usable(available)) > 0 THEN Usable(available)[Len(Usable(available))] ELSE NoModel

\* ModelPicker.consider_model(request, lang), given what
\* check_capabilities_online returned: the first usable capability, or
\* NoModel (None).
consider_model(request, lang, available) ==
  IF Len(Usable(available)) > 0 THEN Usable(available)[1] ELSE NoModel

\* A faulty client that leaves the capability out of the waiter.
create_task_waiter_no_cap(capability, task_id) == [cap |-> <<>>, id |-> task_id]

\* create_task_waiter: the (capability, task id) pair of the poll endpoint
\* the ApiWaiter is built for.
create_task_waiter(capability, task_id) == [cap |-> capability, id |-> task_id]

\* A faulty client that never looks at the status of a response.
RaisesForStatusNever(ok) == FALSE

\* response.raise_for_status(): whether it raises, given whether the status
\* of the response is a success.
RaisesForStatus(ok) == ~ok

\* A faulty check that ends the wait for completed alone.
IsTerminalStatusCompleted(status) ==
  Lower(status) = <<"c", "o", "m", "p", "l", "e", "t", "e", "d">>

\* A faulty check that compares the status as it came, without lower().
IsTerminalStatusAsIs(status) == status \in TerminalStatuses

\* status in ["completed", "failed", "canceled"], for status = data["status"].lower()
IsTerminalStatus(status) == Lower(status) \in TerminalStatuses

\* The body of the try block of wait_for_status on one answer: the exception
\* it raises ("none": none) and whether it returns the data.
PollAttempt(answer) ==
  LET data == answer.data
      outcome(exc, ret) == [exc |-> exc, return |-> ret]
  IN  CASE answer.kind = "http_status" -> outcome("HTTPStatusError", FALSE)
        [] answer.kind = "request" -> outcome("RequestError", FALSE)
        [] answer.kind = "not_json" -> outcome("JSONDecodeError", FALSE)
        [] answer.kind = "json" /\ data.k = "map" ->
             IF s_status \notin Keys(data) THEN outcome("none", FALSE)
             ELSE IF data.v.at[s_status].k # "str" THEN outcome("AttributeError", FALSE)
             ELSE outcome("none", IsTerminalStatus(data.v.at[s_status].v))
        [] answer.kind = "json" /\ data.k = "str" ->
             IF IsSubstr(s_status, data.v) THEN outcome("TypeError", FALSE)
             ELSE outcome("none", FALSE)
        [] OTHER -> outcome("TypeError", FALSE)

\* A faulty waiter without any except clause.
CaughtNever(exc) == FALSE

\* A faulty waiter without the final except Exception clause.
CaughtNamedOnly(exc) == exc \in {"HTTPStatusError", "RequestError", "JSONDecodeError"}

\* Whether one of the except clauses of wait_for_status takes the exception:
\* the three named ones, then except Exception.
Caught(exc) ==
  \/ exc \in {"HTTPStatusError", "RequestError", "JSONDecodeError"}
  \/ exc \in {"AttributeError", "TypeError", "KeyError", "ValueError"}

(***************************************************************************)
(* History: what the answers to the polls of a wait were                   *)
(***************************************************************************)

\* An answer with a success status and a JSON object whose status, in lower
\* case, is completed, failed or canceled.
IsTerminalAnswer(answer) ==
  /\ answer.kind = "json"
  /\ answer.data.k = "map"
  /\ s_status \in Keys(answer.data)
  /\ answer.data.v.at[s_status].k = "str"
  /\ Lower(answer.data.v.at[s_status].v) \in
       { <<"c", "o", "m", "p", "l", "e", "t", "e", "d">>,
         <<"f", "a", "i", "l", "e", "d">>,
         <<"c", "a", "n", "c", "e", "l", "e", "d">> }

\* A failed poll: an error status, a failed request, a body that is not JSON,
\* or a status that is no string.
IsFailedAnswer(answer) ==
  \/ answer.kind \in {"http_status", "request", "not_json"}
  \/ /\ answer.kind = "json"
     /\ answer.data.k = "map"
     /\ s_status \in Keys(answer.data)
     /\ answer.data.v.at[s_status].k # "str"

\* The answers of a wait by kind, each kind counted up to MaxPolls.
Count(counts, answer) ==
  LET more(n) == IF n < MaxPolls THEN n + 1 ELSE n
  IN  IF IsTerminalAnswer(answer) THEN [counts EXCEPT !.terminal = more(@)]
      ELSE IF IsFailedAnswer(answer) THEN [counts EXCEPT !.failed = more(@)]
      ELSE [counts EXCEPT !.pending = more(@)]

(***************************************************************************)
(* The operations                                                          *)
(***************************************************************************)

\* A faulty loop that runs a step whatever its gate says.
SkipsNever(should_run) == FALSE

\* if not should_run: continue
Skips(should_run) == ~should_run

\* A faulty loop that stays on the step it has just processed.
NextIndexStuck(i) == i

\* for i, step in enumerate(self.pipeline.steps): the index after index i.
NextIndex(i) == i + 1

\* The end of the body of the loop of execute for the step at hand: on to the
\* next step, or, after the last one, return self.context.
Advance(e) ==
  /\ idx' = [idx EXCEPT ![e] = NextIndex(@)]
  /\ IF NextIndex(idx[e]) > Len(Steps)
       THEN /\ pc' = [pc EXCEPT ![e] = "done"]
            /\ result' = [result EXCEPT ![e] = context'[ExecutorOf(e)]]
       ELSE /\ pc' = [pc EXCEPT ![e] = "gate"]
            /\ UNCHANGED result

\* An exception that leaves execute, and new_request with it.
Raise(e, exc) ==
  /\ pc' = [pc EXCEPT ![e] = "error"]
  /\ err' = [err EXCEPT ![e] = exc]
  /\ stepState' = [stepState EXCEPT ![e][idx[e]] = "failed"]
  /\ UNCHANGED <<idx, result>>

\* Taskmaster.new_request up to the loop of execute: a PipelineExecutor is
\* built and execute sets its context to {"input": initial_input}.
NewRequest(e) ==
  /\ pc[e] = "idle"
  /\ context' = [context EXCEPT ![ExecutorOf(e)] = Dict(<<s_input>>, s_input :> Str(input[e]))]
  /\ merged' = [merged EXCEPT ![ExecutorOf(e)] = {}]
  /\ idx' = [idx EXCEPT ![e] = 1]
  /\ IF Len(Steps) = 0
       THEN /\ pc' = [pc EXCEPT ![e] = "done"]
            /\ result' = [result EXCEPT ![e] = context'[ExecutorOf(e)]]
       ELSE /\ pc' = [pc EXCEPT ![e] = "gate"]
            /\ UNCHANGED result
  /\ UNCHANGED << pipeline, input, query, waiter, tasks, err, stepState, visits, ncaps,
                  nsubmit, polled, polls, seen, lastAnswer, returned, heard >>

\* A faulty test that takes a query step without a message for one to send.
IsNoopByActionOnly(step) == step.action # "query"

\* Whether a step whose gate has passed does nothing: its action is not
\* "query", or it is a query step without a message.
IsNoop(step) == step.action # "query" \/ ~step.message.present

\* One turn of the loop of execute up to its first request to the backend:
\* the gate, then for a query step with a message the substitution of the
\* prompts and the capabilities query of ModelPicker.consider_model.
StepStart(e) ==
  /\ pc[e] = "gate"
  /\ LET i == idx[e]
         step == Steps[i]
         ctx == context[ExecutorOf(e)]
     IN  \E should_run \in _evaluate_conditions(ctx, step.if_condition) :
           /\ visits' = [visits EXCEPT ![e][i] = @ + 1]
           /\ IF Skips(should_run)
                THEN /\ stepState' = [stepState EXCEPT ![e][i] = "skipped"]
                     /\ UNCHANGED << context, query, ncaps, err >>
                     /\ Advance(e)
              ELSE IF IsNoop(step)
                THEN /\ stepState' = [stepState EXCEPT ![e][i] = "noop"]
                     /\ UNCHANGED << context, query, ncaps, err >>
                     /\ Advance(e)
              ELSE /\ stepState' = [stepState EXCEPT ![e][i] = "running"]
                   /\ query' = [query EXCEPT ![e] =
                        [ model |-> step.model, lang |-> step.lang, json |-> step.json,
                          system |-> _substitute_variables(ctx, step.message.system),
                          user |-> _substitute_variables(ctx, step.message.user),
                          picked |-> <<>> ]]
                   /\ ncaps' = [ncaps EXCEPT ![e][i] = @ + 1]
                   /\ pc' = [pc EXCEPT ![e] = "caps"]
                   /\ UNCHANGED << context, idx, result, err >>
  /\ UNCHANGED << pipeline, input, waiter, tasks, nsubmit, polled, polls, seen,
                  lastAnswer, returned, merged, heard >>

\* The answer to the capabilities query: check_capabilities_online returns
\* or raises, consider_model picks, and QuerySender.execute raises ValueError
\* or sends the submission of submit_task.
CapsResponse(e, answers) ==
  /\ pc[e] = "caps"
  /\ \E a \in answers :
       /\ heard' = [heard EXCEPT ![e].caps = IF a.ok THEN "ok" ELSE "error",
                                 ![e].available = a.caps]
       /\ IF RaisesForStatus(a.ok)
            THEN Raise(e, "HTTPStatusError") /\ UNCHANGED << query, nsubmit >>
          ELSE IF consider_model(query[e].model, query[e].lang, a.caps) = NoModel
            THEN Raise(e, "ValueError") /\ UNCHANGED << query, nsubmit >>
          ELSE /\ query' = [query EXCEPT ![e].picked =
                                 consider_model(query[e].model, query[e].lang, a.caps)]
               /\ nsubmit' = [nsubmit EXCEPT ![e][idx[e]] = @ + 1]
               /\ pc' = [pc EXCEPT ![e] = "submit"]
               /\ UNCHANGED << idx, result, err, stepState >>
  /\ UNCHANGED << pipeline, input, context, waiter, tasks, visits, ncaps, polled,
                  polls, seen, lastAnswer, returned, merged >>

\* The answer to the submission: submit_task returns or raises; on return
\* QuerySender.execute reads task["id"]["id"] and task["id"]["cap"], has the
\* client build the waiter for them, and wait_for_status sends its first poll.
SubmitResponse(e, answers) ==
  /\ pc[e] = "submit"
  /\ \E a \in answers :
       /\ heard' = [heard EXCEPT ![e].submit = IF a.ok THEN "ok" ELSE "error",
                                 ![e].task = IF a.ok THEN a.task ELSE @]
       /\ IF RaisesForStatus(a.ok)
            THEN /\ Raise(e, "HTTPStatusError")
                 /\ UNCHANGED << tasks, waiter, polls, seen, lastAnswer, returned, polled >>
            ELSE /\ tasks' = Append(tasks,
                      [ cap |-> query[e].picked, system |-> query[e].system,
                        user |-> query[e].user, json |-> query[e].json,
                        owner |-> e, step |-> idx[e], output |-> PyNone ])
                 /\ waiter' = [waiter EXCEPT ![e] =
                                 create_task_waiter(a.task.cap, a.task.id)]
                 /\ polls' = [polls EXCEPT ![e] = 1]
                 /\ seen' = [seen EXCEPT ![e] = NothingSeen]
                 /\ lastAnswer' = [lastAnswer EXCEPT ![e] = NoAnswer]
                 /\ returned' = [returned EXCEPT ![e] = PyNone]
                 /\ polled' = [polled EXCEPT ![e] = @ \cup {idx[e]}]
                 /\ pc' = [pc EXCEPT ![e] = "poll"]
                 /\ UNCHANGED << idx, result, err, stepState >>
  /\ UNCHANGED << pipeline, input, context, query, visits, ncaps, nsubmit, merged >>

\* The rest of the step once wait_for_status has returned data:
\* QuerySender.execute returns result["output"], _execute_query_step extracts
\* from response["message"]["content"] when the step has rules, and the loop
\* moves on.
AfterWait(e, data) ==
  LET step == Steps[idx[e]]
      x == ExecutorOf(e)
      output == data.v.at[s_output]
      HasContent == /\ output.k = "map" /\ s_message \in Keys(output)
                    /\ output.v.at[s_message].k = "map"
                    /\ s_content \in Keys(output.v.at[s_message])
      text == output.v.at[s_message].v.at[s_content]
  IN  IF s_output \notin Keys(data)
        THEN Raise(e, "KeyError") /\ UNCHANGED << context, merged >>
      ELSE IF step.extract = <<>>
        THEN /\ stepState' = [stepState EXCEPT ![e][idx[e]] = "finished"]
             /\ UNCHANGED << context, merged, err >>
             /\ Advance(e)
      ELSE IF ~HasContent
        THEN Raise(e, "KeyError") /\ UNCHANGED << context, merged >>
      ELSE /\ context' = [context EXCEPT ![x] =
                            _extract_data(@, text.v, step.extract, step.json)]
           /\ merged' = [merged EXCEPT ![x] = @ \cup {waiter[e].id}]
           /\ IF _extract_data_raises(context[x], text.v, step.extract, step.json) # "none"
                THEN Raise(e, _extract_data_raises(context[x], text.v, step.extract,
                                                   step.json))
                ELSE /\ stepState' = [stepState EXCEPT ![e][idx[e]] = "finished"]
                     /\ UNCHANGED err
                     /\ Advance(e)

\* The answer to a poll: one turn of the loop of wait_for_status.
PollResponse(e, answers) ==
  /\ pc[e] = "poll"
  /\ \E a \in answers :
       /\ lastAnswer' = [lastAnswer EXCEPT ![e] = a]
       /\ seen' = [seen EXCEPT ![e] = Count(@, a)]
       /\ IF PollAttempt(a).exc # "none" /\ ~Caught(PollAttempt(a).exc)
            THEN /\ Raise(e, PollAttempt(a).exc)
                 /\ UNCHANGED << context, merged, returned, tasks >>
          ELSE IF ~PollAttempt(a).return
            THEN /\ pc' = [pc EXCEPT ![e] = "sleep"]
                 /\ UNCHANGED << context, merged, returned, tasks, idx, result, err,
                                 stepState >>
          ELSE /\ returned' = [returned EXCEPT ![e] = a.data]
               /\ tasks' = [tasks EXCEPT ![waiter[e].id].output = a.data]
               /\ AfterWait(e, a.data)
  /\ UNCHANGED << pipeline, input, query, waiter, visits, ncaps, nsubmit,
                  polled, polls, heard >>

\* await asyncio.sleep(5) is over: the loop of wait_for_status sends the next poll.
Sleep(e) ==
  /\ pc[e] = "sleep"
  /\ polls[e] < MaxPolls
  /\ pc' = [pc EXCEPT ![e] = "poll"]
  /\ polls' = [polls EXCEPT ![e] = @ + 1]
  /\ UNCHANGED << pipeline, input, idx, context, query, waiter, tasks, result, err,
                  stepState, visits, ncaps, nsubmit, polled, seen, lastAnswer,
                  returned, merged, heard >>

\* One request against any backend.
Next ==
  /\ \E e \in Execs :
       \/ NewRequest(e)
       \/ StepStart(e)
       \/ CapsResponse(e, CapsAnswers)
       \/ SubmitResponse(e, SubmitAnswers(query[e].picked, Len(tasks) + 1))
       \/ PollResponse(e, PollAnswers)
       \/ Sleep(e)
  /\ UNCHANGED << call, retval, gather >>

Spec == Init /\ [][Next]_vars

\* A backend that serves every request, slowly or at once, with one of three
\* texts.
ConcCapsAnswers == {a \in CapsAnswers : a.ok /\ Usable(a.caps) # <<>>}
ConcPollAnswers ==
  { JsonAnswer(Payload(Str(<<"p", "r", "o", "c", "e", "s", "s", "i", "n", "g">>), PyNone)) }
    \cup { JsonAnswer(Payload(Str(<<"c", "o", "m", "p", "l", "e", "t", "e", "d">>),
              Str(t))) : t \in {TextYaml, TextLow, TextPlain} }

\* Two requests under way at once: any of them takes its next turn.
NextConc ==
  /\ \E e \in Execs :
       \/ NewRequest(e)
       \/ StepStart(e)
       \/ CapsResponse(e, ConcCapsAnswers)
       \/ SubmitResponse(e, {Accepted(query[e].picked, Len(tasks) + 1)})
       \/ PollResponse(e, ConcPollAnswers)
       \/ Sleep(e)
  /\ UNCHANGED << call, retval, gather >>

SpecConc == InitConc /\ [][NextConc]_vars

(***************************************************************************)
(* Properties of PipelineExecutor.execute                                  *)
(***************************************************************************)

\* C1: steps are processed strictly in index order and never overlap.  A
\* request to the backend (capabilities query, submission, poll) is charged
\* to a step only while that step is the one at hand; by then every earlier
\* step is over (skipped or passed over without a request, or finished: its
\* terminal poll answer received and its extraction merged), and every later
\* step is untouched.  A step becomes finished only in the turn that takes a
\* terminal answer to a poll of that step.  No step is visited twice.
C1_StepsInOrder ==
  /\ [](\A e \in Execs : \A j \in 1..Len(Steps) :
          /\ visits[e][j] <= 1
          /\ (ncaps[e][j] > 0 \/ nsubmit[e][j] > 0 \/ j \in polled[e] \/ visits[e][j] > 0) =>
               /\ j <= idx[e]
               /\ \A i \in 1..(j - 1) : stepState[e][i] \in {"skipped", "noop", "finished"}
          /\ j > idx[e] => stepState[e][j] = "pending"
          /\ stepState[e][j] \in {"skipped", "noop"} =>
               ncaps[e][j] = 0 /\ nsubmit[e][j] = 0 /\ j \notin polled[e]
          /\ stepState[e][j] = "finished" =>
               ncaps[e][j] = 1 /\ nsubmit[e][j] = 1 /\ j \in polled[e])
  /\ [][\A e \in Execs : \A j \in 1..Len(Steps) :
          /\ (ncaps'[e][j] # ncaps[e][j] \/ nsubmit'[e][j] # nsubmit[e][j]
                \/ (j \in polled'[e] /\ j \notin polled[e])) =>
               idx[e] = j /\ idx'[e] = j
          /\ (polls'[e] # polls[e]) => idx'[e] = idx[e] /\ idx[e] \in polled'[e]
          /\ (stepState'[e][j] = "finished" /\ stepState[e][j] # "finished") =>
               /\ idx[e] = j /\ pc[e] = "poll" /\ j \in polled[e]
               /\ IsTerminalAnswer(lastAnswer'[e])
               /\ Steps[j].extract # <<>> => waiter[e].id \in merged'[ExecutorOf(e)]
          /\ idx'[e] # idx[e] => idx'[e] = idx[e] + 1]_vars

\* A second step is being polled after the first one finished.
C1_Witness ==
  \E e \in Execs :
    /\ Len(Steps) >= 2
    /\ stepState[e][1] = "finished"
    /\ 2 \in polled[e]
    /\ pc[e] = "poll"

\* C3: a step whose gate evaluates to false is skipped with no side effect.
\* The turn that takes such a step leaves the context, the requests sent, the
\* error and the tasks of the backend as they were, marks the step skipped and
\* moves to the next step (or returns the context after the last one); a
\* skipped step never has a capabilities query, a submission or a poll.
C3_SkipHasNoEffect ==
  /\ [](\A e \in Execs : \A j \in 1..Len(Steps) :
          stepState[e][j] = "skipped" =>
            ncaps[e][j] = 0 /\ nsubmit[e][j] = 0 /\ j \notin polled[e])
  /\ [][\A e \in Execs :
          (/\ pc[e] = "gate"
           /\ <<pc[e], idx[e], visits[e]>> # <<pc'[e], idx'[e], visits'[e]>>
           /\ TRUE \notin _evaluate_conditions(context[ExecutorOf(e)],
                                               Steps[idx[e]].if_condition))
          => /\ context' = context
             /\ ncaps' = ncaps /\ nsubmit' = nsubmit /\ polled' = polled
             /\ polls' = polls /\ tasks' = tasks /\ merged' = merged
             /\ err'[e] = "none" /\ pc'[e] # "error"
             /\ stepState'[e][idx[e]] = "skipped"
             /\ idx'[e] = idx[e] + 1
             /\ IF idx[e] < Len(Steps)
                  THEN pc'[e] = "gate" /\ result'[e] = PyNone
                  ELSE pc'[e] = "done" /\ result'[e] = context[ExecutorOf(e)]
        ]_vars

\* The second of three steps was skipped and the third one ran to its end.
C3_Witness ==
  \E e \in Execs :
    /\ Len(Steps) = 3
    /\ stepState[e][2] = "skipped"
    /\ stepState[e][3] = "finished"
    /\ pc[e] = "done"

\* C4: within one execution the context only gains keys.  The key input is
\* there from the start, no turn of the execution removes a key, and every
\* key of the context is in the mapping that execute returns.
C4_ContextOnlyGrows ==
  /\ [](\A e \in Execs :
          /\ pc[e] \notin {"absent", "idle"} => s_input \in Keys(context[ExecutorOf(e)])
          /\ pc[e] = "done" =>
               /\ result[e].k = "map"
               /\ Keys(context[ExecutorOf(e)]) \subseteq Keys(result[e])
               /\ result[e] = context[ExecutorOf(e)])
  /\ [][\A e \in Execs :
          pc[e] \notin {"absent", "idle"} =>
            Keys(context[ExecutorOf(e)]) \subseteq Keys(context'[ExecutorOf(e)])
        ]_vars

\* An execution returned a context that holds keys of two steps besides input.
C4_Witness ==
  \E e \in Execs :
    /\ pc[e] = "done"
    /\ Cardinality(Keys(result[e])) >= 4
    /\ \A i \in 1..Len(Steps) : stepState[e][i] = "finished"

\* C2: gating on extracted values, end to end.  In the two-step pipeline
\* whose first step (json mode) extracts score as a number and flag as a
\* boolean and whose second step is gated on score gt 0.75 with the nested
\* and-condition flag is true: after the answer {"score":0.9,"flag":true}
\* to the first step, the second step is never skipped and, once taken, is
\* sent to the backend; after the answer {"score":0.5,"flag":true} the second
\* step sends nothing and, once taken, is skipped, and execute returns a
\* context with exactly the keys input, score and flag.  The stored pipeline
\* likewise sends its second step after an answer with suspicious 0.9 and
\* security_risk true.
C2_GateOnExtracted ==
  \A e \in Execs :
    LET data == returned[e]
        answered(text) ==
          /\ stepState[e][1] = "finished"
          /\ 2 \notin polled[e]
          /\ data.k = "map"
          /\ s_output \in Keys(data)
          /\ data.v.at[s_output].v.at[s_message].v.at[s_content] = Str(text)
        ctx == context[ExecutorOf(e)]
        sent == /\ stepState[e][2] \in {"pending", "running", "failed"}
                /\ pc[e] \in {"gate", "caps", "submit", "error"}
                /\ visits[e][2] = 1 => stepState[e][2] # "pending" /\ ncaps[e][2] = 1
    IN  /\ (pipeline = ScorePipeline /\ answered(TextHigh)) =>
              /\ ctx.v.at[s_score] = PyFloat(90)
              /\ ctx.v.at[s_flag] = PyBool(TRUE)
              /\ sent
        /\ (pipeline = ScorePipeline /\ answered(TextLow)) =>
              /\ ctx.v.at[s_score] = PyFloat(50)
              /\ ctx.v.at[s_flag] = PyBool(TRUE)
              /\ stepState[e][2] \in {"pending", "skipped"}
              /\ ncaps[e][2] = 0 /\ nsubmit[e][2] = 0
              /\ pc[e] \in {"gate", "done"}
              /\ visits[e][2] = 1 =>
                   /\ stepState[e][2] = "skipped"
                   /\ pc[e] = "done"
                   /\ result[e] = ctx
                   /\ Keys(result[e]) = {s_input, s_score, s_flag}
                   /\ result[e].v.at[s_input] = Str(input[e])
        /\ (pipeline = yaml_pipeline /\ answered(TextYaml)) => sent

\* An execution of the two-step pipeline, answered with score 0.5, has
\* skipped the second step and returned.
C2_Witness ==
  \E e \in Execs :
    /\ pipeline = ScorePipeline
    /\ pc[e] = "done"
    /\ stepState[e][2] = "skipped"
    /\ returned[e].v.at[s_output].v.at[s_message].v.at[s_content] = Str(TextLow)
    /\ Keys(result[e]) = {s_input, s_score, s_flag}

\* The second step of the two-step pipeline was sent to the backend after
\* the answer with score 0.9.
C2_WitnessSent ==
  \E e \in Execs :
    /\ pipeline = ScorePipeline
    /\ pc[e] = "caps"
    /\ idx[e] = 2
    /\ returned[e].v.at[s_output].v.at[s_message].v.at[s_content] = Str(TextHigh)

(***************************************************************************)
(* Properties of ApiWaiter.wait_for_status                                 *)
(***************************************************************************)

\* C6: the waiter sends exactly as many polls as it takes to get the first
\* answer with a terminal status and returns the payload of that answer as
\* it came.  While the wait lasts every poll sent but the one under way has
\* had an answer and none was terminal; when the wait has returned, the
\* answers before the last were not terminal, the last one was, and what was
\* returned is its payload; answered n - 1 times without a terminal status
\* and without a failure, the waiter has sent exactly n polls.
C6_PollsUntilFirstTerminal ==
  \A e \in Execs :
    /\ returned[e] # PyNone =>
         /\ seen[e].terminal = 1
         /\ polls[e] = seen[e].pending + seen[e].failed + 1
         /\ seen[e].failed = 0 => polls[e] = seen[e].pending + 1
         /\ lastAnswer[e] \in PollAnswers
         /\ returned[e] = lastAnswer[e].data
    /\ (returned[e] = PyNone /\ pc[e] = "poll") =>
         seen[e].terminal = 0 /\ polls[e] = seen[e].pending + seen[e].failed + 1
    /\ (returned[e] = PyNone /\ pc[e] = "sleep") =>
         seen[e].terminal = 0 /\ polls[e] = seen[e].pending + seen[e].failed

\* Two answers without a terminal status, then a terminal one: three polls,
\* and the third payload returned.
C6_Witness ==
  \E e \in Execs :
    /\ returned[e] # PyNone
    /\ polls[e] = 3
    /\ seen[e] = [pending |-> 2, failed |-> 0, terminal |-> 1]
    /\ returned[e] = lastAnswer[e].data

\* C7: the waiter returns only a payload whose status, in lower case, is
\* completed, failed or canceled, and it returns on the first answer that
\* has one.  An answer with another status or with no status key leaves the
\* wait going.
C7_ReturnsOnlyOnTerminal ==
  \A e \in Execs :
    /\ returned[e] # PyNone =>
         /\ returned[e].k = "map"
         /\ s_status \in Keys(returned[e])
         /\ returned[e].v.at[s_status].k = "str"
         /\ Lower(returned[e].v.at[s_status].v) \in
              { <<"c", "o", "m", "p", "l", "e", "t", "e", "d">>,
                <<"f", "a", "i", "l", "e", "d">>,
                <<"c", "a", "n", "c", "e", "l", "e", "d">> }
    /\ seen[e].terminal > 0 =>
         /\ seen[e].terminal = 1
         /\ IsTerminalAnswer(lastAnswer[e])
         /\ returned[e] = lastAnswer[e].data
         /\ pc[e] \notin {"poll", "sleep"}
    /\ (lastAnswer[e] # NoAnswer /\ ~IsTerminalAnswer(lastAnswer[e])) =>
         /\ returned[e] = PyNone
         /\ pc[e] \in {"poll", "sleep"}

\* A wait that an answer without a terminal status did not end has returned
\* a canceled payload.
C7_Witness ==
  \E e \in Execs :
    /\ returned[e] # PyNone
    /\ returned[e].v.at[s_status] = Str(<<"c", "a", "n", "c", "e", "l", "e", "d">>)
    /\ seen[e].pending > 0

C9_NoCapabilityAborts ==
  \A e \in Execs :
    (/\ heard[e].caps = "ok"
     /\ \A k \in 1..Len(heard[e].available) :
          ~StartsWith(heard[e].available[k], <<"L", "L", "M", ":", ":">>))
    => /\ pc[e] = "error"
       /\ err[e] = "ValueError"
       /\ result[e] = PyNone
       /\ stepState[e][idx[e]] = "failed"
       /\ nsubmit[e][idx[e]] = 0
       /\ idx[e] \notin polled[e]
       /\ Cardinality({i \in 1..Len(tasks) : tasks[i].owner = e}) =
            Cardinality({j \in 1..(idx[e] - 1) : stepState[e][j] = "finished"})
       /\ \A j \in (idx[e] + 1)..Len(Steps) :
            /\ stepState[e][j] = "pending"
            /\ visits[e][j] = 0
            /\ ncaps[e][j] = 0 /\ nsubmit[e][j] = 0 /\ j \notin polled[e]

\* The first step of a longer pipeline was answered with a list of
\* capabilities none of which serves a model.
C9_Witness ==
  \E e \in Execs :
    /\ heard[e].caps = "ok"
    /\ heard[e].available = << <<"T", "T", "S", ":", ":", "k">> >>
    /\ pc[e] = "error"
    /\ Len(Steps) >= 2
    /\ nsubmit[e][idx[e]] = 0

\* C10: an answer to a submission that is not a success ends the execution
\* with an error at once.  The turn that takes the answer builds no waiter,
\* sends no poll and leaves the context alone; afterwards the step has had
\* its one submission and no poll, no later step is taken, execute returns
\* no context, and the execution sends nothing more.
C10_SubmitFailureFatal ==
  /\ [](\A e \in Execs :
          heard[e].submit = "error" =>
            /\ pc[e] = "error"
            /\ err[e] = "HTTPStatusError"
            /\ result[e] = PyNone
            /\ stepState[e][idx[e]] = "failed"
            /\ nsubmit[e][idx[e]] = 1
            /\ idx[e] \notin polled[e]
            /\ Cardinality({i \in 1..Len(tasks) : tasks[i].owner = e}) =
                 Cardinality({j \in 1..(idx[e] - 1) : stepState[e][j] = "finished"})
            /\ \A j \in (idx[e] + 1)..Len(Steps) :
                 /\ stepState[e][j] = "pending"
                 /\ visits[e][j] = 0
                 /\ ncaps[e][j] = 0 /\ nsubmit[e][j] = 0 /\ j \notin polled[e])
  /\ [][\A e \in Execs :
          /\ (pc[e] = "submit" /\ heard'[e].submit = "error") =>
               /\ pc'[e] = "error"
               /\ UNCHANGED << waiter, tasks, polls, polled, seen, context, merged,
                               nsubmit, ncaps, idx >>
          /\ pc[e] = "error" =>
               /\ pc'[e] = "error"
               /\ nsubmit'[e] = nsubmit[e] /\ ncaps'[e] = ncaps[e]
               /\ polls'[e] = polls[e] /\ polled'[e] = polled[e]
               /\ visits'[e] = visits[e] /\ idx'[e] = idx[e]
               /\ context'[ExecutorOf(e)] = context[ExecutorOf(e)]
        ]_vars

\* The submission of the second of three steps was refused after the first
\* step had finished.
C10_Witness ==
  \E e \in Execs :
    /\ heard[e].submit = "error"
    /\ Len(Steps) = 3
    /\ idx[e] = 2
    /\ stepState[e][1] = "finished"
    /\ pc[e] = "error"

(***************************************************************************)
(* Properties of Taskmaster.new_request                                    *)
(***************************************************************************)

\* C5: two requests of the stored pipeline with distinct inputs, under way at
\* once and interleaved at every backend call and sleep, never see each
\* other's context.  At every moment the context of a request is what its
\* own input and the payloads of its own finished tasks give, and that is
\* what execute returns; every prompt it sends is the step's template filled
\* from that context (it holds the request's input and not the other's);
\* every gate it takes is decided on that context; and every task whose
\* answer was extracted into its context is its own.
C5_ContextsApart ==
  \A e \in Execs :
    LET x == ExecutorOf(e)
        content(j) ==
          LET id == CHOOSE i \in 1..Len(tasks) : tasks[i].owner = e /\ tasks[i].step = j
          IN  tasks[id].output.v.at[s_output].v.at[s_message].v.at[s_content].v
        after(before, j) ==
          IF stepState[e][j] = "finished" /\ Steps[j].extract # <<>>
            THEN _extract_data(before, content(j), Steps[j].extract, Steps[j].json)
            ELSE before
        ctx0 == Dict(<<s_input>>, s_input :> Str(input[e]))
        ctx1 == after(ctx0, 1)
        ctx2 == after(ctx1, 2)
        seenBy(j) == IF j = 1 THEN ctx0 ELSE ctx1
    IN  /\ Len(Steps) = 2
        /\ pc[e] # "idle" => context[x] = ctx2
        /\ pc[e] = "done" =>
             /\ result[e] = ctx2
             /\ result[e].v.at[s_input] = Str(input[e])
        /\ merged[x] \subseteq {i \in 1..Len(tasks) : tasks[i].owner = e}
        /\ pc[e] \in {"caps", "submit"} =>
             /\ query[e].user =
                  _substitute_variables(seenBy(idx[e]), Steps[idx[e]].message.user)
             /\ query[e].system =
                  _substitute_variables(seenBy(idx[e]), Steps[idx[e]].message.system)
        /\ \A i \in 1..Len(tasks) :
             tasks[i].owner = e =>
               /\ tasks[i].user =
                    _substitute_variables(seenBy(tasks[i].step),
                                          Steps[tasks[i].step].message.user)
               /\ tasks[i].system =
                    _substitute_variables(seenBy(tasks[i].step),
                                          Steps[tasks[i].step].message.system)
               /\ IsSubstr(input[e], tasks[i].user)
               /\ \A o \in Execs \ {e} : ~IsSubstr(input[o], tasks[i].user)
        /\ \A j \in 1..2 :
             /\ stepState[e][j] = "skipped" =>
                  FALSE \in _evaluate_conditions(seenBy(j), Steps[j].if_condition)
             /\ stepState[e][j] \in {"running", "finished", "failed"} =>
                  TRUE \in _evaluate_conditions(seenBy(j), Steps[j].if_condition)

\* Both requests have returned, with different contexts, after their tasks
\* were submitted in turns: the first by one, the second by the other, the
\* third by the first again.
C5_Witness ==
  /\ pc["e1"] = "done" /\ pc["e2"] = "done"
  /\ result["e1"] # result["e2"]
  /\ Len(tasks) >= 3
  /\ tasks[1].owner = "e1" /\ tasks[2].owner = "e2" /\ tasks[3].owner = "e1"
  /\ Cardinality(Keys(result["e1"])) = 5

(***************************************************************************)
(* Properties of the dispatch of a query step                              *)
(***************************************************************************)

\* C11: the requests of a dispatched query step come in a fixed order.  A
\* step has at most one capabilities query and one submission, the
\* submission only after the capabilities query, polls only after the
\* submission was accepted, and extraction only in the turn that takes a
\* terminal answer to a poll.  The task submitted is for the first advertised
\* capability with the prefix LLM:: and carries the system and user text
\* already filled from the context and the json flag of the step; the polls
\* go to the (capability, task id) pair that the answer to the submission
\* carried; what is extracted from is the message content of the terminal
\* payload.
C11_DispatchOrder ==
  /\ [](\A e \in Execs : \A j \in 1..Len(Steps) :
          /\ ncaps[e][j] <= 1 /\ nsubmit[e][j] <= 1
          /\ nsubmit[e][j] = 1 => ncaps[e][j] = 1
          /\ j \in polled[e] => nsubmit[e][j] = 1
          /\ stepState[e][j] = "finished" => j \in polled[e]
          /\ (idx[e] = j /\ pc[e] \in {"caps", "submit"}) => j \notin polled[e]
          /\ (idx[e] = j /\ pc[e] \in {"poll", "sleep"}) =>
               LET av == heard[e].available
                   llm == {k \in 1..Len(av) : StartsWith(av[k], <<"L", "L", "M", ":", ":">>)}
                   first == CHOOSE k \in llm : \A m \in llm : k <= m
                   task == tasks[waiter[e].id]
                   ctx == context[ExecutorOf(e)]
               IN  /\ j \in polled[e] /\ polls[e] >= 1
                   /\ heard[e].submit = "ok"
                   /\ waiter[e] = heard[e].task
                   /\ waiter[e].id \in 1..Len(tasks)
                   /\ task.owner = e /\ task.step = j
                   /\ task.cap = av[first]
                   /\ task.system = _substitute_variables(ctx, Steps[j].message.system)
                   /\ task.user = _substitute_variables(ctx, Steps[j].message.user)
                   /\ task.json = Steps[j].json)
  /\ [][\A e \in Execs :
          LET x == ExecutorOf(e)
              step == Steps[idx[e]]
              data == lastAnswer'[e].data
          IN  /\ polls'[e] # polls[e] =>
                   /\ pc[e] \in {"submit", "sleep"}
                   /\ nsubmit[e][idx[e]] = 1
                   /\ waiter'[e] = heard'[e].task
              /\ (pc[e] # "idle" /\ (context'[x] # context[x] \/ merged'[x] # merged[x])) =>
                   /\ pc[e] = "poll"
                   /\ IsTerminalAnswer(lastAnswer'[e])
                   /\ returned'[e] = data
                   /\ context'[x] =
                        _extract_data(context[x],
                          data.v.at[s_output].v.at[s_message].v.at[s_content].v,
                          step.extract, step.json)
        ]_vars

\* A request returned after a wait of several polls addressed to the pair
\* that the backend answered the submission with, under a capability name of
\* its own.
C11_Witness ==
  \E e \in Execs :
    /\ pc[e] = "done"
    /\ polls[e] >= 2
    /\ merged[ExecutorOf(e)] # {}
    /\ waiter[e].cap = <<"L", "L", "M", ":", ":", "n">>
    /\ tasks[waiter[e].id].cap = <<"L", "L", "M", ":", ":", "m">>

(***************************************************************************)
(* Properties of extraction                                                *)
(***************************************************************************)

\* C13: when a step is in json mode and the text of the answer is not valid
\* JSON, its extraction writes nothing, whatever its rules are (fulltext
\* rules and rules before and after others included): the turn that takes
\* such an answer leaves the context as it was, raises no error, and moves to
\* the next step or returns the context after the last one.
C13_MalformedJsonWritesNothing ==
  [][\A e \in Execs :
       LET x == ExecutorOf(e)
           step == Steps[idx[e]]
           data == returned'[e]
           text == data.v.at[s_output].v.at[s_message].v.at[s_content].v
       IN  (/\ pc[e] = "poll"
            /\ returned'[e] # PyNone
            /\ s_output \in Keys(data)
            /\ step.json
            /\ step.extract # <<>>
            /\ ~JsonLoads(text).ok)
           => /\ context'[x] = context[x]
              /\ err'[e] = "none"
              /\ stepState'[e][idx[e]] = "finished"
              /\ idx'[e] = idx[e] + 1
              /\ IF idx[e] < Len(Steps)
                   THEN pc'[e] = "gate" /\ result'[e] = PyNone
                   ELSE pc'[e] = "done" /\ result'[e] = context[x]
     ]_vars

\* The json step with a fulltext rule among its rules was answered with a
\* text cut short; the context holds the input alone and the next step is at
\* hand.
C13_Witness ==
  \E e \in Execs :
    /\ pipeline = MixedPipeline
    /\ stepState[e][1] = "finished"
    /\ idx[e] = 2 /\ pc[e] = "gate"
    /\ returned[e].v.at[s_output].v.at[s_message].v.at[s_content] = Str(TextCut)
    /\ Keys(context[ExecutorOf(e)]) = {s_input}

\* C15, as the claim has it: when the coercion of a value that a rule of the
\* step has found fails (a rule of type number has found a value that is no
\* number, or one that float() rejects), the extraction of the step is
\* abandoned, the step leaves the context as it was, and execution goes on
\* with the next step.
C15_FailedCoercionLeavesContext ==
  [][\A e \in Execs :
       LET x == ExecutorOf(e)
           step == Steps[idx[e]]
           text == returned'[e].v.at[s_output].v.at[s_message].v.at[s_content].v
           data == IF step.json THEN JsonLoads(text).val ELSE PyNone
           found(i) == RuleValue(step.extract[i], text, data)
           NoFloat(v) == \/ v.k \in {"map", "list", "huge"}
                         \/ v.k = "str" /\ ~IsNumLit(v.v)
       IN  (/\ pc[e] = "poll"
            /\ returned'[e] # PyNone
            /\ s_output \in Keys(returned'[e])
            /\ step.json => JsonLoads(text).ok
            /\ \E i \in 1..Len(step.extract) :
                 /\ step.extract[i].type = "number"
                 /\ found(i) # PyNone
                 /\ NoFloat(found(i))
                 /\ \A j \in 1..(i - 1) :
                      ~(step.extract[j].type = "number" /\ NoFloat(found(j))))
           => /\ context'[x] = context[x]
              /\ err'[e] = "none"
              /\ stepState'[e][idx[e]] = "finished"
              /\ idx'[e] = idx[e] + 1
     ]_vars

\* C15, amended: when a rule of type number finds a value that is no number
\* (a string that writes no number, a mapping, a sequence), the coercion does
\* not fail and the extraction of the step is not abandoned: 0.0 is written
\* under the name of the rule, what the rules before it wrote is kept and the
\* rules after it are applied in turn, this rule raises nothing, and the step
\* ends without error and execution goes on with the next step, except where
\* another rule of the same step finds an int too large for a float and
\* raises (C14).
C15_NonNumericWritesZero ==
  [][\A e \in Execs :
       LET x == ExecutorOf(e)
           step == Steps[idx[e]]
           rules == step.extract
           text == returned'[e].v.at[s_output].v.at[s_message].v.at[s_content].v
           data == IF step.json THEN JsonLoads(text).val ELSE PyNone
           found(i) == RuleValue(rules[i], text, data)
           NonNumeric(v) == \/ v.k \in {"map", "list"}
                            \/ v.k = "str" /\ ~IsNumLit(v.v)
           Overflows(i) == rules[i].type = "number" /\ found(i).k = "huge"
           Reached(i) == \A j \in 1..(i - 1) : ~Overflows(j)
       IN  (/\ pc[e] = "poll"
            /\ returned'[e] # PyNone
            /\ s_output \in Keys(returned'[e])
            /\ step.json => JsonLoads(text).ok)
           => \A i \in 1..Len(rules) :
                (/\ rules[i].type = "number"
                 /\ found(i) # PyNone
                 /\ NonNumeric(found(i))
                 /\ Reached(i)
                 /\ \A j \in 1..Len(rules) : j # i => rules[j].name # rules[i].name)
                => /\ rules[i].name \in Keys(context'[x])
                   /\ context'[x].v.at[rules[i].name] = PyFloat(0)
                   /\ \A j \in 1..Len(rules) :
                        (found(j) # PyNone /\ Reached(j) /\ ~Overflows(j))
                        => rules[j].name \in Keys(context'[x])
                   /\ \A key \in Keys(context[x]) : key \in Keys(context'[x])
                   /\ err'[e] \notin {"ValueError", "TypeError"}
                   /\ IF \E j \in 1..Len(rules) : Overflows(j)
                        THEN err'[e] = "OverflowError"
                        ELSE /\ err'[e] = "none"
                             /\ stepState'[e][idx[e]] = "finished"
                             /\ idx'[e] = idx[e] + 1
     ]_vars

\* The score of the answer was the word high: the step wrote 0.0 under score
\* next to the text, the whole document and the flag, and the next step is
\* at hand.
C15_Witness ==
  \E e \in Execs :
    /\ pipeline = MixedPipeline
    /\ stepState[e][1] = "finished"
    /\ idx[e] = 2 /\ pc[e] = "gate"
    /\ err[e] = "none"
    /\ returned[e].v.at[s_output].v.at[s_message].v.at[s_content] = Str(TextWordy)
    /\ Keys(context[ExecutorOf(e)]) = {s_input, s_raw, s_score, s_all, s_flag}
    /\ context[ExecutorOf(e)].v.at[s_score] = PyFloat(0)
    /\ context[ExecutorOf(e)].v.at[s_flag] = PyBool(TRUE)

\* The score was the word high and another number too large: 0.0 stands
\* under score, and the request ended with the overflow of the later rule.
C15_WitnessBoth ==
  \E e \in Execs :
    /\ pipeline = MixedPipeline
    /\ err[e] = "OverflowError"
    /\ returned[e].v.at[s_output].v.at[s_message].v.at[s_content] = Str(TextBoth)
    /\ Keys(context[ExecutorOf(e)]) = {s_input, s_raw, s_score, s_all}
    /\ context[ExecutorOf(e)].v.at[s_score] = PyFloat(0)

(***************************************************************************)
(* Properties of the steps that send nothing                               *)
(***************************************************************************)

\* C23: a step whose gate passes and which is a query step without a message,
\* or a step with an action other than query, does nothing.  The turn that
\* takes it sends no request, leaves the context, the tasks of the backend
\* and the error as they were and moves to the next step (or returns the
\* context after the last one); such a step never has a capabilities query,
\* a submission or a poll.
C23_NoopStep ==
  /\ [](\A e \in Execs : \A j \in 1..Len(Steps) :
          (\/ Steps[j].action # "query"
           \/ ~Steps[j].message.present)
          => /\ ncaps[e][j] = 0 /\ nsubmit[e][j] = 0 /\ j \notin polled[e]
             /\ stepState[e][j] \in {"pending", "skipped", "noop"}
             /\ \A k \in 1..Len(tasks) : ~(tasks[k].owner = e /\ tasks[k].step = j))
  /\ [][\A e \in Execs :
          (/\ pc[e] = "gate"
           /\ <<pc[e], idx[e], visits[e]>> # <<pc'[e], idx'[e], visits'[e]>>
           /\ stepState'[e][idx[e]] # "skipped"
           /\ \/ Steps[idx[e]].action # "query"
              \/ ~Steps[idx[e]].message.present)
          => /\ context' = context
             /\ ncaps' = ncaps /\ nsubmit' = nsubmit /\ polled' = polled
             /\ polls' = polls /\ tasks' = tasks /\ merged' = merged
             /\ err'[e] = "none" /\ pc'[e] # "error"
             /\ stepState'[e][idx[e]] = "noop"
             /\ idx'[e] = idx[e] + 1
             /\ IF idx[e] < Len(Steps)
                  THEN pc'[e] = "gate" /\ result'[e] = PyNone
                  ELSE pc'[e] = "done" /\ result'[e] = context[ExecutorOf(e)]
        ]_vars

\* A step with the action notify, whose gate held for the input, and a query
\* step without a message were passed, and the query step after them ran to its end on the input alone.
C23_Witness ==
  \E e \in Execs :
    /\ pipeline = MiscPipeline
    /\ input[e] = InputB
    /\ stepState[e] = <<"noop", "noop", "finished">>
    /\ pc[e] = "done"
    /\ Len(tasks) = 1
    /\ s_score \in Keys(result[e])

(***************************************************************************)
(* A request that is run to its end, or for ever                           *)
(***************************************************************************)

\* await asyncio.sleep(5) is over once more, after the polls that polls[e]
\* counts: while True has no limit, and the loop sends the next poll.
SleepOn(e) ==
  /\ pc[e] = "sleep"
  /\ polls[e] = MaxPolls
  /\ pc' = [pc EXCEPT ![e] = "poll"]
  /\ UNCHANGED << pipeline, input, idx, context, query, waiter, tasks, result, err,
                  stepState, visits, ncaps, nsubmit, polled, polls, seen, lastAnswer,
                  returned, merged, heard >>

\* One request against any backend, with waits of any length.
NextLive ==
  \/ Next
  \/ (\E e \in Execs : SleepOn(e)) /\ UNCHANGED << call, retval, gather >>

\* execute is resumed with what it awaited: the answer to a request, the end
\* of a sleep, the call of new_request.
Resumed ==
  /\ \E e \in Execs :
       \/ NewRequest(e)
       \/ CapsResponse(e, CapsAnswers)
       \/ SubmitResponse(e, SubmitAnswers(query[e].picked, Len(tasks) + 1))
       \/ PollResponse(e, PollAnswers)
       \/ Sleep(e)
       \/ SleepOn(e)
  /\ UNCHANGED << call, retval, gather >>

\* The event loop resumes the coroutine of execute whenever what it awaits is
\* there: a sleep ends, and every request to the backend ends with a response
\* or with the RequestError of the client's timeout.  Between two awaits the
\* code runs on: the gate of a step is decided, and the step is skipped,
\* passed over or dispatched.
SpecLive ==
  /\ Init /\ [][NextLive]_vars
  /\ WF_vars(Resumed)
  /\ \A e \in Execs : []<>(pc[e] # "gate")

\* The gate of a step is always decided: the fairness of SpecLive asks for no
\* step that the program cannot take.
GateDecidable ==
  \A e \in Execs :
    pc[e] = "gate"
    => _evaluate_conditions(context[ExecutorOf(e)], Steps[idx[e]].if_condition) # {}

\* wait_for_status is under way for e.
Waiting(e) == pc[e] \in {"poll", "sleep"}

\* A terminal payload that carries output.message.content.
WellFormed(data) ==
  /\ data.k = "map"
  /\ s_output \in Keys(data)
  /\ data.v.at[s_output].k = "map"
  /\ s_message \in Keys(data.v.at[s_output])
  /\ data.v.at[s_output].v.at[s_message].k = "map"
  /\ s_content \in Keys(data.v.at[s_output].v.at[s_message])

\* The backend has failed e: a capabilities query without a success status
\* or without a usable capability, a submission without a success status, or
\* a terminal payload that is not well formed.
Unserved(e) ==
  \/ heard[e].caps = "error"
  \/ heard[e].caps = "ok" /\ Usable(heard[e].available) = <<>>
  \/ heard[e].submit = "error"
  \/ returned[e] # PyNone /\ ~WellFormed(returned[e])

\* execute has returned the context to e after visiting every step once.
Completed(e) ==
  /\ pc[e] = "done"
  /\ result[e] = context[ExecutorOf(e)]
  /\ \A i \in 1..Len(Steps) : visits[e][i] = 1

\* A wait ends with a terminal answer and in no other way: while there is
\* none, execute neither returns nor fails, and no step is started.
WaitEndsOnTerminalOnly ==
  [][\A e \in Execs :
       (Waiting(e) /\ ~IsTerminalAnswer(lastAnswer'[e]))
       => /\ Waiting(e)'
          /\ idx'[e] = idx[e] /\ result'[e] = result[e] /\ err'[e] = err[e]
          /\ visits'[e] = visits[e] /\ ncaps'[e] = ncaps[e] /\ nsubmit'[e] = nsubmit[e]
          /\ stepState'[e] = stepState[e]]_vars

\* A wait that never ends sends poll after poll, with a sleep after each.
PollsForever ==
  (<>[]Waiting("e1")) => ([]<>(pc["e1"] = "poll") /\ []<>(pc["e1"] = "sleep"))

\* C27: termination of execute.  When every capabilities query and every
\* submission succeeds and every task submitted reports, in the end, a
\* terminal status with a well-formed payload, execute returns the context in
\* the end, after visiting every step.  When a task never reports a terminal
\* status, execute never returns and never fails: it polls for ever and
\* starts no later step.
C27_Termination ==
  /\ (<>[]Waiting("e1")) \/ <>(Unserved("e1") \/ Completed("e1"))
  /\ WaitEndsOnTerminalOnly
  /\ PollsForever

\* The same with the answers set apart whose extraction raises.
C27_TerminationBelowOverflow ==
  /\ (<>[]Waiting("e1")) \/ <>(Unserved("e1") \/ Completed("e1") \/ err["e1"] = "OverflowError")
  /\ WaitEndsOnTerminalOnly
  /\ PollsForever

\* C28: polls are spaced by the fixed interval.  The first poll of a wait is
\* sent with no sleep before it; an answer that is not terminal, be it a
\* pending status or a failed poll, is followed by one sleep and the sleep
\* by the next poll, so that one sleep lies between two polls that follow
\* each other; a terminal answer is returned with no sleep after it.
C28_PollSpacing ==
  /\ [][\A e \in Execs :
          /\ (pc[e] = "submit" /\ pc'[e] # "submit" /\ err'[e] = "none")
             => (pc'[e] = "poll" /\ polls'[e] = 1 /\ seen'[e] = NothingSeen)
          /\ (pc[e] = "poll" /\ pc'[e] # "poll" /\ ~IsTerminalAnswer(lastAnswer'[e]))
             => (pc'[e] = "sleep" /\ polls'[e] = polls[e] /\ returned'[e] = PyNone)
          /\ (pc[e] # "sleep" /\ pc'[e] = "sleep")
             => (pc[e] = "poll" /\ ~IsTerminalAnswer(lastAnswer'[e]))
          /\ (pc[e] = "sleep" /\ pc'[e] # "sleep")
             => (pc'[e] = "poll" /\ polls'[e] = polls[e] + 1 /\ seen'[e] = seen[e])
          /\ (pc[e] # "submit" /\ polls'[e] # polls[e])
             => (pc[e] = "sleep" /\ pc'[e] = "poll")
          /\ (pc[e] = "poll" /\ IsTerminalAnswer(lastAnswer'[e]))
             => (pc'[e] \notin {"poll", "sleep"} /\ returned'[e] = lastAnswer'[e].data
                 /\ polls'[e] = polls[e])]_vars
  /\ [](\A e \in Execs :
          /\ pc[e] = "poll" => polls[e] = seen[e].pending + seen[e].failed + 1
          /\ pc[e] = "sleep" => polls[e] = seen[e].pending + seen[e].failed)

\* A wait of three polls: a pending status, a sleep, a failed poll, a sleep,
\* and the terminal answer, returned at once.
C28_Witness ==
  /\ polls["e1"] = 3
  /\ seen["e1"] = [pending |-> 1, failed |-> 1, terminal |-> 1]
  /\ returned["e1"] # PyNone
  /\ returned["e1"] = lastAnswer["e1"].data
  /\ pc["e1"] \notin {"poll", "sleep"}

\* The tasks submitted for step i of request e.
TasksOf(e, i) == {t \in DOMAIN tasks : tasks[t].owner = e /\ tasks[t].step = i}

\* C29: a dispatched query step submits exactly one task over the whole
\* execution, whatever the polls return.  A terminal status of failed or
\* canceled ends the wait like completed: the task is not polled again and
\* nothing is submitted again.  The executor does not look at the terminal
\* status: for a payload that carries output.message.content it runs the
\* extraction of the step on the content and goes on to the next step, which
\* is what it does for completed.
C29_OneSubmissionPerStep ==
  /\ [](\A e \in Execs : \A i \in 1..Len(Steps) :
          /\ nsubmit[e][i] <= 1 /\ ncaps[e][i] <= 1
          /\ Cardinality(TasksOf(e, i)) <= nsubmit[e][i]
          /\ (i \in polled[e]) => (nsubmit[e][i] = 1 /\ Cardinality(TasksOf(e, i)) = 1)
          /\ stepState[e][i] = "finished" => Cardinality(TasksOf(e, i)) = 1)
  /\ [](\A e \in Execs :
          Waiting(e) => (returned[e] = PyNone /\ tasks[waiter[e].id].output = PyNone))
  /\ [][\A e \in Execs :
          (pc[e] = "poll" /\ IsTerminalAnswer(lastAnswer'[e]))
          => LET data == lastAnswer'[e].data
                 i == idx[e]
                 step == Steps[i]
                 x == ExecutorOf(e)
                 text == data.v.at[s_output].v.at[s_message].v.at[s_content].v
                 raised == IF step.extract = <<>> THEN "none"
                           ELSE _extract_data_raises(context[x], text, step.extract, step.json)
             IN  /\ ~Waiting(e)'
                 /\ polls'[e] = polls[e] /\ nsubmit' = nsubmit /\ ncaps' = ncaps
                 /\ Len(tasks') = Len(tasks)
                 /\ tasks'[waiter[e].id].output = data
                 /\ WellFormed(data)
                    => /\ context'[x] = IF step.extract = <<>> THEN context[x]
                                        ELSE _extract_data(context[x], text, step.extract,
                                                           step.json)
                       /\ err'[e] = raised
                       /\ raised = "none"
                          => /\ stepState'[e][i] = "finished"
                             /\ idx'[e] = i + 1
                             /\ pc'[e] = IF i = Len(Steps) THEN "done" ELSE "gate"]_vars

\* A task reported failed with a content: its score and flag were extracted
\* and the step finished, after one submission.
C29_Witness ==
  /\ stepState["e1"][1] = "finished"
  /\ IsTerminalAnswer(lastAnswer["e1"])
  /\ lastAnswer["e1"].data.v.at[s_status].v = <<"f", "a", "i", "l", "e", "d">>
  /\ WellFormed(lastAnswer["e1"].data)
  /\ idx["e1"] = 2
  /\ nsubmit["e1"][1] = 1
  /\ s_score \in Keys(context["e1"])
  /\ context["e1"].v.at[s_score] = PyFloat(50)

\* A task reported canceled with a content: the step finished all the same.
C29_WitnessCanceled ==
  /\ stepState["e1"][1] = "finished"
  /\ IsTerminalAnswer(lastAnswer["e1"])
  /\ lastAnswer["e1"].data.v.at[s_status].v = <<"c", "a", "n", "c", "e", "l", "e", "d">>
  /\ idx["e1"] = 2
  /\ Cardinality(TasksOf("e1", 1)) = 1

(***************************************************************************)
(* Single functions of the program, called by themselves                   *)
(***************************************************************************)

\* The variables of the requests, which a call by itself leaves alone.
requestVars ==
  << pipeline, input, pc, idx, context, query, waiter, tasks, result, err,
     stepState, visits, ncaps, nsubmit, polled, polls, seen, lastAnswer,
     returned, merged, heard >>

\* Calls of ModelPicker.consider_model: the model asked for, the language
\* hint, and the list the capabilities endpoint answers with.
Availables ==
  { <<>>,
    << <<"T", "T", "S", ":", ":", "k">> >>,
    << <<"L", "L", "M", ":", ":", "m">> >>,
    << <<"T", "T", "S", ":", ":", "k">>, <<"L", "L", "M", ":", ":", "m">>, <<"L", "L", "M", ":",
        ":", "n">> >>,
    << <<"L", "L", "M", ":", ":", "n">>, <<"T", "T", "S", ":", ":", "k">>, <<"L", "L", "M", ":",
        ":", "m">> >>,
    << <<"l", "l", "m", ":", ":", "x">>, <<"X", "L", "L", "M", ":", ":", "a">>, <<"L", "L", "M",
        ":">> >>,
    << <<"l", "l", "m", ":", ":", "x">>, <<"L", "L", "M", ":", ":">>, <<"L", "L", "M", ":", ":",
        "m">> >> }
PickerCalls ==
  { [fn |-> "consider_model", request |-> r, lang |-> l, available |-> a] :
      r \in {"", "any", "any/strong"}, l \in {"none", "en"}, a \in Availables }

\* ModelPicker.consider_model is called and returns.
Call_consider_model ==
  /\ call.fn = "consider_model"
  /\ ~retval.done
  /\ retval' = Returned(consider_model(call.request, call.lang, call.available))
  /\ UNCHANGED << requestVars, call, gather >>

\* C12: consider_model returns the first capability, in the order the backend
\* lists them, that starts with LLM::, whatever the model asked for and the
\* language hint; it returns None exactly when no listed capability starts
\* with LLM::.
C12_FirstUsable ==
  (call.fn = "consider_model" /\ retval.done) =>
    LET av == call.available
        llm == {k \in 1..Len(av) :
                  Len(av[k]) >= 5 /\ SubSeq(av[k], 1, 5) = <<"L", "L", "M", ":", ":">>}
    IN  /\ retval.raised = "none"
        /\ (retval.value = NoModel) <=> (llm = {})
        /\ llm # {} => \E k \in llm : /\ \A m \in llm : k <= m
                                     /\ retval.value = av[k]

\* Asked for a strong model, the picker returned the first of two model
\* capabilities although another capability stood between them.
C12_Witness ==
  /\ call.fn = "consider_model"
  /\ call.request = "any/strong"
  /\ call.lang = "en"
  /\ call.available = << <<"L", "L", "M", ":", ":", "n">>, <<"T", "T", "S", ":", ":", "k">>,
      <<"L", "L", "M", ":", ":", "m">> >>
  /\ retval.done
  /\ retval.value = <<"L", "L", "M", ":", ":", "n">>

\* Calls of PipelineExecutor._cast_type: a value that a rule has found, which
\* is never None (exec.py 114), and the type of the rule.  HugeInt is the int
\* 2 followed by 308 zeros.
HugeInt == PyHuge([i \in 1..HugeDigits |-> IF i = 1 THEN "2" ELSE "0"])
CastValues ==
  { PyInt(0), PyInt(100), PyInt(500), PyFloat(90), PyFloat(0), PyBool(TRUE), PyBool(FALSE),
    Str(<<"0", ".", "9">>), Str(<<"1">>), Str(<<"1", "0">>), Str(<<"h", "i", "g", "h">>), Str(<<"t", "r", "u", "e">>), Str(<<"T", "r", "u", "e">>),
    Str(<<"Y", "E", "S">>), Str(<<"n", "o">>), Str(<<>>), Str(<<"F", "a", "l", "s", "e">>),
    EmptyDict, Dict(<<s_score>>, [key \in {s_score} |-> PyInt(100)]),
    PyList(<<>>), PyList(<<PyInt(100)>>), PyList(<<Str(<<"y", "e", "s">>)>>),
    HugeInt }
CastTypes == {"number", "boolean", "string", "none"}
CastCalls ==
  { [fn |-> "_cast_type", value |-> v, target_type |-> t] : v \in CastValues, t \in CastTypes }

\* PipelineExecutor._cast_type is called and returns or raises.
Call_cast_type ==
  /\ call.fn = "_cast_type"
  /\ ~retval.done
  /\ LET r == _cast_type(call.value, call.target_type)
     IN  retval' = IF r.k = "raise" THEN Raised(r.v) ELSE Returned(r)
  /\ UNCHANGED << requestVars, call, gather >>

\* C14: coercion is total.  For every value that is not None, type number
\* gives a float, the float form of a numeric value and 0.0 for a value that
\* is no number; type boolean gives true exactly when the lowercased string
\* form of the value is true, 1 or yes; no type and type string give the value
\* itself; and the call never raises.
C14_CoercionTotal ==
  (call.fn = "_cast_type" /\ retval.done) =>
    LET v == call.value
        t == call.target_type
    IN  /\ retval.raised = "none"
        /\ t = "number" =>
             /\ retval.value.k = "float"
             /\ v.k \in {"int", "float"} => retval.value.v = v.v
             /\ v.k \in {"map", "list"} => retval.value.v = 0
             /\ v = Str(<<"h", "i", "g", "h">>) => retval.value.v = 0
             /\ v = Str(<<"0", ".", "9">>) => retval.value.v = 90
        /\ t = "boolean" =>
             retval.value = PyBool(\/ v \in {PyBool(TRUE), PyInt(100)}
                                   \/ v \in {Str(<<"t", "r", "u", "e">>), Str(<<"T", "r", "u", "e">>), Str(<<"Y", "E", "S">>), Str(<<"1">>)})
        /\ t \in {"string", "none"} => retval.value = v

\* C14, apart from the value on which the call raises.
C14_TotalBelowOverflow ==
  (call.fn = "_cast_type" /\ call.value # HugeInt) => C14_CoercionTotal

\* Calls of the condition evaluator.  The contexts hold x, or x and y; a
\* literal b is any value of a YAML document.
k_x == <<"x">>
k_y == <<"y">>
k_z == <<"z">>
Ctx1(vx) == Dict(<<k_x>>, k_x :> vx)
Ctx2(vx, vy) == Dict(<<k_x, k_y>>, k_x :> vx @@ k_y :> vy)
CondValues ==
  { PyInt(0), PyInt(100), PyInt(300), PyInt(1000), PyFloat(90), Str(<<"a", "b", "c">>), Str(<<"1">>),
    PyBool(TRUE), Ctx1(PyInt(200)), PyList(<<PyInt(100), Str(<<"a">>)>>), HugeInt }
CondContexts ==
  {EmptyDict} \cup {Ctx1(vx) : vx \in CondValues}
    \cup {Ctx2(vx, vy) : vx \in {PyInt(0), PyInt(100)}, vy \in {PyInt(200), PyInt(300)}}
Literals ==
  { PyInt(100), PyInt(500), PyFloat(90), Str(<<"a">>), Str(<<"1">>), PyBool(TRUE), PyNone,
    Ctx1(PyInt(200)), PyList(<<PyInt(100)>>) }
Leaf(a, op, b) == Cond(a, op, b, <<>>, <<>>)
Leafs == {Leaf(k_x, op, b) : op \in OpNames, b \in Literals}
X1 == Leaf(k_x, "eq", PyInt(100))
Y2 == Leaf(k_y, "eq", PyInt(200))
Y3 == Leaf(k_y, "eq", PyInt(300))
Trees ==
  { Y2, Y3,
    Cond(k_x, "eq", PyInt(100), <<Y2>>, <<>>),
    Cond(k_x, "eq", PyInt(100), <<Y2>>, <<Y3>>),
    Cond(k_x, "eq", PyInt(100), <<>>, <<Y2, Y3>>),
    Cond(k_x, "is", PyInt(100), <<Y2>>, <<Y3>>),
    Cond(k_x, "eq", PyInt(100),
         << Cond(k_y, "eq", PyInt(200), <<>>, <<Leaf(k_x, "lt", PyInt(500))>>) >>,
         << Cond(k_y, "gt", PyInt(100), <<Leaf(k_x, "eq", PyInt(0)), Y3>>, <<>>) >>),
    Leaf(k_z, "eq", PyInt(100)),
    Cond(k_z, "eq", PyInt(100), <<X1>>, <<>>),
    Cond(k_z, "eq", PyInt(100), <<X1>>, <<X1>>),
    Cond(k_z, "eq", PyInt(100), <<>>, <<Y2, X1>>),
    Cond(<<"x", ".", "x">>, "eq", PyInt(200), <<X1>>, <<Leaf(k_x, "gt", PyInt(100))>>),
    Cond(<<"x", ".", "k">>, "eq", PyInt(100), <<>>, <<Leaf(k_x, "contains", Str(<<"b">>))>>) }
CondLists ==
  { <<>>, <<X1>>, <<X1, Y2>>, <<Y3, X1>>, <<Leaf(k_x, "gt", PyInt(500)), Y2, X1>>,
    <<Leaf(k_x, "is", PyInt(100)), Leaf(k_x, "lt", PyInt(500))>>,
    << Cond(k_x, "eq", PyInt(100), <<Y2>>, <<Y3>>), Leaf(k_y, "lt", PyInt(500)) >>,
    << Leaf(k_z, "eq", PyInt(100)) >>,
    << X1, Cond(k_z, "eq", PyInt(100), <<>>, <<Y2>>) >> }
SingleCalls ==
  { [fn |-> "_evaluate_single_condition", context |-> c, condition |-> k] :
      c \in CondContexts, k \in Leafs \cup Trees }
GateCalls ==
  { [fn |-> "_evaluate_conditions", context |-> c, conditions |-> l] :
      c \in CondContexts, l \in CondLists }

\* PipelineExecutor._evaluate_single_condition is called and returns or raises.
Call_evaluate_single_condition ==
  /\ call.fn = "_evaluate_single_condition"
  /\ ~retval.done
  /\ IF _evaluate_single_condition_raises(call.context, call.condition)
       THEN retval' = Raised("TypeError")
       ELSE \E r \in _evaluate_single_condition(call.context, call.condition) :
              retval' = Returned(PyBool(r))
  /\ UNCHANGED << requestVars, call, gather >>

\* PipelineExecutor._evaluate_conditions is called and returns or raises.
Call_evaluate_conditions ==
  /\ call.fn = "_evaluate_conditions"
  /\ ~retval.done
  /\ IF \E i \in DOMAIN call.conditions :
          _evaluate_single_condition_raises(call.context, call.conditions[i])
       THEN retval' = Raised("TypeError")
       ELSE \E r \in _evaluate_conditions(call.context, call.conditions) :
              retval' = Returned(PyBool(r))
  /\ UNCHANGED << requestVars, call, gather >>

\* C16: the gate of a step.  For any context, an absent or empty list of
\* conditions evaluates to true; a list that is not empty evaluates to the
\* conjunction of its top-level conditions, each evaluated on its own: true
\* only if every one of them can be true by itself, false only if one of them
\* can be false by itself, and the call raises nothing.
C16_GateIsConjunction ==
  (call.fn = "_evaluate_conditions" /\ retval.done) =>
    LET single(i) == _evaluate_single_condition(call.context, call.conditions[i])
        n == Len(call.conditions)
    IN  /\ retval.raised = "none"
        /\ retval.value \in {PyBool(TRUE), PyBool(FALSE)}
        /\ n = 0 => retval.value = PyBool(TRUE)
        /\ (n > 0 /\ retval.value = PyBool(TRUE)) => \A i \in 1..n : TRUE \in single(i)
        /\ (n > 0 /\ retval.value = PyBool(FALSE)) => \E i \in 1..n : FALSE \in single(i)
        /\ (\A i \in 1..n : single(i) = {TRUE}) => retval.value = PyBool(TRUE)
        /\ (\E i \in 1..n : single(i) = {FALSE}) => retval.value = PyBool(FALSE)

\* A list of two conditions, the first of which holds in the context and the
\* second of which does not, evaluated to false.
C16_Witness ==
  /\ call.fn = "_evaluate_conditions"
  /\ call.conditions = <<X1, Y2>>
  /\ call.context = Ctx2(PyInt(100), PyInt(300))
  /\ retval.done
  /\ retval.value = PyBool(FALSE)

\* The empty list evaluated to true in a context that is not empty.
C16_WitnessEmpty ==
  /\ call.fn = "_evaluate_conditions"
  /\ call.conditions = <<>>
  /\ call.context = Ctx1(PyInt(300))
  /\ retval.done
  /\ retval.value = PyBool(TRUE)

\* C17: nested conditions.  With base the result of the condition without
\* its lists: when base is true and the and list is not empty, the result is
\* the conjunction of the conditions of the and list and does not depend on
\* the or list; when base is false and the or list is not empty, the result
\* is the disjunction of the conditions of the or list and does not depend on
\* the and list; otherwise the result is base.  The condition x eq 1 with
\* and [y eq 2] is true for {x: 1, y: 2}, false for {x: 1, y: 3} and false
\* for {x: 0, y: 2}.
C17_NestedSemantics ==
  (call.fn = "_evaluate_single_condition" /\ retval.done) =>
    LET c == call.condition
        ctx == call.context
        eval(k) == _evaluate_single_condition(ctx, k)
        bases == eval(Leaf(c.a, c.op, c.b))
        value(b) ==
          IF b /\ c.and_ # <<>>
            THEN {PyBool(\A i \in DOMAIN c.and_ : pick[i]) :
                    pick \in {p \in [DOMAIN c.and_ -> BOOLEAN] :
                                \A i \in DOMAIN c.and_ : p[i] \in eval(c.and_[i])}}
          ELSE IF ~b /\ c.or_ # <<>>
            THEN {PyBool(\E i \in DOMAIN c.or_ : pick[i]) :
                    pick \in {p \in [DOMAIN c.or_ -> BOOLEAN] :
                                \A i \in DOMAIN c.or_ : p[i] \in eval(c.or_[i])}}
          ELSE {PyBool(b)}
        example == Cond(k_x, "eq", PyInt(100), <<Leaf(k_y, "eq", PyInt(200))>>, <<>>)
    IN  /\ retval.raised = "none"
        /\ \E b \in bases : retval.value \in value(b)
        /\ bases = {TRUE} => eval(c) = eval([c EXCEPT !.or_ = <<>>])
        /\ bases = {FALSE} => eval(c) = eval([c EXCEPT !.and_ = <<>>])
        /\ c = example =>
             /\ ctx = Ctx2(PyInt(100), PyInt(200)) => retval.value = PyBool(TRUE)
             /\ ctx = Ctx2(PyInt(100), PyInt(300)) => retval.value = PyBool(FALSE)
             /\ ctx = Ctx2(PyInt(0), PyInt(200)) => retval.value = PyBool(FALSE)

\* x eq 1 with and [y eq 2] was false for {x: 1, y: 3}: the base held and the
\* nested condition did not.
C17_Witness ==
  /\ call.fn = "_evaluate_single_condition"
  /\ call.condition = Cond(k_x, "eq", PyInt(100), <<Y2>>, <<>>)
  /\ call.context = Ctx2(PyInt(100), PyInt(300))
  /\ retval.done
  /\ retval.value = PyBool(FALSE)

\* x eq 1 with and [y eq 2] and or [y eq 3] was true for {x: 0, y: 3}: the
\* base failed and the or list decided.
C17_WitnessOr ==
  /\ call.fn = "_evaluate_single_condition"
  /\ call.condition = Cond(k_x, "eq", PyInt(100), <<Y2>>, <<Y3>>)
  /\ call.context = Ctx2(PyInt(0), PyInt(300))
  /\ retval.done
  /\ retval.value = PyBool(TRUE)

\* C18: a condition whose path a is not found in the context (a key is
\* missing, or the path leads through a value that is no mapping) evaluates
\* to false whatever its and list and its or list contain: neither list is
\* evaluated.
C18_MissingShortCircuits ==
  (/\ call.fn = "_evaluate_single_condition"
   /\ retval.done
   /\ _lookup_path(call.context, call.condition.a) = PyNone)
  => /\ retval.raised = "none"
     /\ retval.value = PyBool(FALSE)

\* C18, for the conditions without an or list.
C18_MissingWithoutOr ==
  (call.fn = "_evaluate_single_condition" /\ call.condition.or_ = <<>>)
  => C18_MissingShortCircuits

\* C19: the evaluation of a single condition never raises, whatever the kind
\* of the context value (string, number, boolean, mapping, sequence) and of
\* the literal and whichever of the six operators is named: where the
\* operator cannot be applied to the two operands as they are, it is applied
\* again to their string forms, which never fails, and that result is the
\* result of the comparison.
C19_NeverRaises ==
  (call.fn = "_evaluate_single_condition" /\ retval.done) =>
    LET c == call.condition
        ctx == call.context
        val_a == _lookup_path(ctx, c.a)
        leaf == c.and_ = <<>> /\ c.or_ = <<>>
        is(vx, op, b) == ctx = Ctx1(vx) /\ c = Leaf(k_x, op, b)
    IN  /\ retval.raised = "none"
        /\ retval.value \in {PyBool(TRUE), PyBool(FALSE)}
        /\ (leaf /\ val_a # PyNone /\ ops(c.op, val_a, c.b).raised) =>
             /\ ~ops(c.op, Str(PyStr(val_a)), Str(PyStr(c.b))).raised
             /\ retval.value.v \in ops(c.op, Str(PyStr(val_a)), Str(PyStr(c.b))).res
        /\ is(PyInt(1000), "gt", Str(<<"1">>)) => retval.value = PyBool(TRUE)
        /\ is(PyInt(100), "contains", Str(<<"1">>)) => retval.value = PyBool(TRUE)
        /\ is(PyBool(TRUE), "lt", Str(<<"a">>)) => retval.value = PyBool(TRUE)
        /\ is(Ctx1(PyInt(200)), "gt", PyInt(100)) => retval.value = PyBool(TRUE)
        /\ is(Str(<<"a", "b", "c">>), "lt", PyInt(100)) => retval.value = PyBool(FALSE)
        /\ is(PyList(<<PyInt(100), Str(<<"a">>)>>), "gt", PyInt(500)) => retval.value = PyBool(TRUE)
        /\ is(PyList(<<PyInt(100), Str(<<"a">>)>>), "contains", Str(<<"a">>)) => retval.value = PyBool(TRUE)
        /\ is(Ctx1(PyInt(200)), "contains", PyList(<<PyInt(100)>>)) => retval.value = PyBool(FALSE)
        /\ is(PyFloat(90), "lt", PyNone) => retval.value = PyBool(TRUE)

\* A mapping was compared with an int by gt: the operator does not apply, and
\* the comparison of the string forms gave true.
C19_Witness ==
  /\ call.fn = "_evaluate_single_condition"
  /\ call.context = Ctx1(Ctx1(PyInt(200)))
  /\ call.condition = Leaf(k_x, "gt", PyInt(100))
  /\ retval.done
  /\ retval.raised = "none"
  /\ retval.value = PyBool(TRUE)

\* C20: gt and lt compare numbers by their value.  The condition x gt 5 is
\* true for {x: 10}, false for {x: 3} and false for the empty context; for a
\* number v in the context and a number b as the literal, gt holds exactly
\* when v > b and lt exactly when v < b.
C20_NumericOrder ==
  (call.fn = "_evaluate_single_condition" /\ retval.done) =>
    LET c == call.condition
        ctx == call.context
        v == ctx.v.at[k_x]
        numbers == {"int", "float"}
    IN  /\ (/\ c \in {Leaf(k_x, "gt", c.b), Leaf(k_x, "lt", c.b)}
            /\ c.b.k \in numbers
            /\ k_x \in Keys(ctx))
           => /\ v.k \in numbers =>
                   retval.value = PyBool(IF c.op = "gt" THEN v.v > c.b.v ELSE v.v < c.b.v)
              /\ v = HugeInt => retval.value = PyBool(c.op = "gt")
        /\ c = Leaf(k_x, "gt", PyInt(500)) =>
             /\ ctx = Ctx1(PyInt(1000)) => retval.value = PyBool(TRUE)
             /\ ctx = Ctx1(PyInt(300)) => retval.value = PyBool(FALSE)
             /\ ctx = EmptyDict => retval.value = PyBool(FALSE)

\* x gt 5 was true for {x: 10}, where the texts 10 and 5 stand the other way.
C20_Witness ==
  /\ call.fn = "_evaluate_single_condition"
  /\ call.context = Ctx1(PyInt(1000))
  /\ call.condition = Leaf(k_x, "gt", PyInt(500))
  /\ retval.done
  /\ retval.value = PyBool(TRUE)

\* x gt 5 was false for the empty context.
C20_WitnessEmpty ==
  /\ call.fn = "_evaluate_single_condition"
  /\ call.context = EmptyDict
  /\ call.condition = Leaf(k_x, "gt", PyInt(500))
  /\ retval.done
  /\ retval.value = PyBool(FALSE)

\* Calls of PipelineExecutor._substitute_variables: the context of an
\* executor, whose input is the caller's, and the system or user text of a
\* message.
SubstContexts ==
  { Dict(<<s_input>>, s_input :> Str(<<"g", "o">>)),
    Dict(<<s_input, s_score, s_all>>,
         s_input :> Str(<<"g", "o">>) @@ s_score :> PyFloat(90)
           @@ s_all :> Dict(<<k_x, k_y>>, k_x :> Str(<<"v">>) @@ k_y :> PyNone)),
    Dict(<<s_input>>, s_input :> Str(<<"$", "{", "i", "n", "p", "u", "t", "}">>)),
    Dict(<<s_input, k_x>>, s_input :> Str(<<"{", "x", "}">>) @@ k_x :> Str(<<"y">>)),
    Dict(<<s_input, k_x>>, s_input :> Str(<<"a", "$", "{", "x", "}", "b">>) @@ k_x :> PyBool(TRUE)),
    Dict(<<s_input>>, s_input :> Str(<<>>)) }
Templates ==
  { <<>>, <<"p", "l", "a", "i", "n">>, <<"$", "{", "i", "n", "p", "u", "t", "}">>, <<"a", " ", "$", "{", "i", "n", "p", "u", "t", "}", " ", "b", " ", "$", "{", "s", "c", "o", "r", "e", "}", ".">>, <<"$", "{", "a", "l", "l", ".", "x", "}", "$", "{", "i", "n", "p", "u", "t", "}">>,
    <<"$", "{", "a", "l", "l", "}">>, <<"$", "{", "m", "i", "s", "s", "i", "n", "g", "}", "x">>, <<"<", "$", "{", "i", "n", "p", "u", "t", ".", "x", "}", ">">>, <<"$", "{", "a", "l", "l", ".", "y", "}", "!">>, <<"$", "{", "}">>, <<"$", "{", "i", "n", "p", "u", "t">>,
    <<"$", "$", "{", "i", "n", "p", "u", "t", "}">>, <<"$", "{", "a", "$", "{", "i", "n", "p", "u", "t", "}">>, <<"}", "$", "{", "i", "n", "p", "u", "t", "}", "{", "$">>, <<"$", "{", "x", "}", "$", "{", "i", "n", "p", "u", "t", "}", "$", "{", "x", "}">>,
    <<"$", "{", "a", "l", "l", ".", "x", ".", "x", "}", "$", "{", "i", "n", "p", "u", "t", "}">> }
SubstCalls ==
  { [fn |-> "_substitute_variables", context |-> c, template |-> t] :
      c \in SubstContexts, t \in Templates }

\* PipelineExecutor._substitute_variables is called and returns.
Call_substitute_variables ==
  /\ call.fn = "_substitute_variables"
  /\ ~retval.done
  /\ retval' = Returned(Str(_substitute_variables(call.context, call.template)))
  /\ UNCHANGED << requestVars, call, gather >>

\* A marker in a text s: "${", one or more characters other than "}", and
\* "}", from index i to index j.
MarkerAt(s, i, j) ==
  /\ i + 2 < j /\ j <= Len(s)
  /\ s[i] = "$" /\ s[i + 1] = "{" /\ s[j] = "}"
  /\ \A k \in (i + 2)..(j - 1) : s[k] # "}"
Markers(s) == {p \in (1..Len(s)) \X (1..Len(s)) : MarkerAt(s, p[1], p[2])}
\* The placeholders of a template: the markers that do not begin inside a
\* marker that begins before them.
Placeholders(s) ==
  {p \in Markers(s) : ~\E q \in Markers(s) : q[1] < p[1] /\ p[1] <= q[2]}
PathOf(s, p) == SubSeq(s, p[1] + 2, p[2] - 1)
\* The text of a template from index i on, each placeholder replaced by the
\* text form of its value in the context, or by nothing when it has none.
RECURSIVE Filled(_, _, _)
Filled(ctx, s, i) ==
  LET later == {p \in Placeholders(s) : p[1] >= i}
      p == CHOOSE p \in later : \A q \in later : p[1] <= q[1]
      found == _lookup_path(ctx, PathOf(s, p))
  IN  IF later = {} THEN SubSeq(s, i, Len(s))
      ELSE SubSeq(s, i, p[1] - 1) \o (IF found = PyNone THEN <<>> ELSE PyStr(found))
             \o Filled(ctx, s, p[2] + 1)

\* C21, as the claim has it: when the path of every placeholder of a template
\* resolves in the context, the result of the substitution contains no
\* marker, and the characters of the template outside its placeholders stand
\* in the result as they are and in their order.
C21_NoMarkerLeft ==
  (/\ call.fn = "_substitute_variables"
   /\ retval.done
   /\ \A p \in Placeholders(call.template) :
        _lookup_path(call.context, PathOf(call.template, p)) # PyNone)
  => /\ retval.raised = "none"
     /\ Markers(retval.value.v) = {}
     /\ retval.value.v = Filled(call.context, call.template, 1)

\* C21, amended: when the path of every placeholder of a template resolves
\* in the context, every placeholder is replaced by the text form of its
\* value and the characters of the template outside its placeholders stand in
\* the result as they are and in their order; the result contains no marker
\* when every text put in is non-empty and has none of the characters $, {
\* and }.  Text put in is not scanned again, so a value may bring a marker
\* into the result or complete one.
C21_PlaceholdersFilled ==
  (/\ call.fn = "_substitute_variables"
   /\ retval.done
   /\ \A p \in Placeholders(call.template) :
        _lookup_path(call.context, PathOf(call.template, p)) # PyNone)
  => LET text(p) == PyStr(_lookup_path(call.context, PathOf(call.template, p)))
         plain(t) == t # <<>> /\ \A k \in 1..Len(t) : t[k] \notin {"$", "{", "}"}
     IN  /\ retval.raised = "none"
         /\ retval.value.v = Filled(call.context, call.template, 1)
         /\ (\A p \in Placeholders(call.template) : plain(text(p)))
              => Markers(retval.value.v) = {}

\* A template with two placeholders and text around them was filled from a
\* context that holds both.
C21_Witness ==
  /\ call.fn = "_substitute_variables"
  /\ call.template = <<"a", " ", "$", "{", "i", "n", "p", "u", "t", "}", " ", "b", " ", "$", "{", "s", "c", "o", "r", "e", "}", ".">>
  /\ s_score \in Keys(call.context)
  /\ retval.done
  /\ retval.value = Str(<<"a", " ", "g", "o", " ", "b", " ", "0", ".", "9", ".">>)

\* C22: substitution never fails and is single-pass.  A placeholder whose
\* path is missing from the context, or leads through a value that is no
\* mapping, is replaced by the empty text; the text put in for a placeholder
\* is not scanned for placeholders, so that a value that contains a marker
\* stands in the result as it is.
C22_SinglePass ==
  (call.fn = "_substitute_variables" /\ retval.done) =>
    LET ctx == call.context
        t == call.template
        given == ctx.v.at[s_input].v
    IN  /\ retval.raised = "none"
        /\ retval.value = Str(Filled(ctx, t, 1))
        /\ t = <<"$", "{", "m", "i", "s", "s", "i", "n", "g", "}", "x">> => retval.value = Str(<<"x">>)
        /\ t = <<"<", "$", "{", "i", "n", "p", "u", "t", ".", "x", "}", ">">> => retval.value = Str(<<"<", ">">>)
        /\ t = <<"$", "{", "a", "l", "l", ".", "x", ".", "x", "}", "$", "{", "i", "n", "p", "u", "t", "}">> => retval.value = Str(given)
        /\ t = <<"$", "{", "i", "n", "p", "u", "t", "}">> => retval.value = Str(given)
        /\ (t = <<"$", "{", "x", "}", "$", "{", "i", "n", "p", "u", "t", "}", "$", "{", "x", "}">> /\ given = <<"a", "$", "{", "x", "}", "b">>)
             => retval.value = Str(<<"T", "r", "u", "e", "a", "$", "{", "x", "}", "b", "T", "r", "u", "e">>)

\* The input a${x}b was put in between two values of x, and its marker was
\* left as it is.
C22_Witness ==
  /\ call.fn = "_substitute_variables"
  /\ call.template = <<"$", "{", "x", "}", "$", "{", "i", "n", "p", "u", "t", "}", "$", "{", "x", "}">>
  /\ call.context.v.at[s_input] = Str(<<"a", "$", "{", "x", "}", "b">>)
  /\ retval.done
  /\ retval.value = Str(<<"T", "r", "u", "e", "a", "$", "{", "x", "}", "b", "T", "r", "u", "e">>)

\* A path through a string and a missing key were replaced by nothing.
C22_WitnessMissing ==
  /\ call.fn = "_substitute_variables"
  /\ call.template = <<"<", "$", "{", "i", "n", "p", "u", "t", ".", "x", "}", ">">>
  /\ call.context.v.at[s_input] = Str(<<"g", "o">>)
  /\ retval.done
  /\ retval.value = Str(<<"<", ">">>)

\* Calls of PipelineExecutor._extract_data: the context before, which may
\* hold what an earlier step wrote, the text of the answer, the rules of the
\* step and its json flag.
TextNull == <<"{", "\"", "s", "c", "o", "r", "e", "\"", ":", "n", "u", "l", "l", ",", "\"", "f", "l", "a", "g", "\"", ":", "t", "r", "u", "e", "}">>
ExtractContexts ==
  { Dict(<<s_input>>, s_input :> Str(InputB)),
    Dict(<<s_input, s_score, s_raw>>,
         s_input :> Str(InputB) @@ s_score :> PyFloat(50) @@ s_raw :> Str(<<"o", "l", "d">>)) }
ExtractTexts == {TextHigh, TextPlain, TextCut, TextNull, TextWordy}
RuleLists ==
  { << Rule(s_score, <<".", "s", "c", "o", "r", "e">>, FALSE, "number"), Rule(s_score, <<".", "f", "l", "a", "g">>, FALSE, "none") >>,
    << Rule(s_raw, <<".", "s", "c", "o", "r", "e">>, TRUE, "none") >>,
    << Rule(s_raw, <<".", "s", "c", "o", "r", "e">>, TRUE, "boolean"), Rule(s_raw, <<".", "s", "c", "o", "r", "e">>, FALSE, "none") >>,
    << Rule(s_all, <<".">>, FALSE, "none"), Rule(s_score, <<".", "s", "c", "o", "r", "e">>, FALSE, "none") >>,
    << Rule(s_score, <<".", "m", "i", "s", "s", "i", "n", "g">>, FALSE, "number"), Rule(s_flag, <<".", "f", "l", "a", "g">>, FALSE, "boolean"),
       Rule(s_verdict, <<".", "s", "c", "o", "r", "e", ".", "x">>, FALSE, "boolean") >>,
    << Rule(s_score, <<".", "s", "c", "o", "r", "e">>, FALSE, "number"), Rule(s_score, <<".", "m", "i", "s", "s", "i", "n", "g">>, FALSE, "number"),
       Rule(s_flag, <<".", "f", "l", "a", "g">>, FALSE, "boolean"), Rule(s_verdict, <<>>, FALSE, "number") >> }
ExtractCalls ==
  { [fn |-> "_extract_data", context |-> c, response |-> t, rules |-> r,
     is_json_response |-> j] :
      c \in ExtractContexts, t \in ExtractTexts, r \in RuleLists, j \in BOOLEAN }

\* PipelineExecutor._extract_data is called and returns or raises; the value
\* is self.context as the call leaves it.
Call_extract_data ==
  /\ call.fn = "_extract_data"
  /\ ~retval.done
  /\ retval' =
       [ done |-> TRUE,
         raised |-> _extract_data_raises(call.context, call.response, call.rules,
                                         call.is_json_response),
         value |-> _extract_data(call.context, call.response, call.rules,
                                 call.is_json_response) ]
  /\ UNCHANGED << requestVars, call, gather >>

\* What rule i of an extraction call finds in the answer: the text itself
\* for a rule flagged fulltext, whatever its path; else, for a parsed answer,
\* the whole value for the path "." and the value at the path for another;
\* None when it finds no value.
FoundBy(i) ==
  LET rule == call.rules[i]
      parsed == IF call.is_json_response THEN JsonLoads(call.response).val ELSE PyNone
  IN  IF rule.fulltext THEN Str(call.response)
      ELSE IF rule.jq = <<>> \/ parsed = PyNone THEN PyNone
      ELSE IF rule.jq = <<".">> THEN parsed
      ELSE _lookup_path(parsed, Tail(rule.jq))
\* The rules of the call that find a value for the name.
Producers(name) ==
  {i \in 1..Len(call.rules) : call.rules[i].name = name /\ FoundBy(i) # PyNone}
\* The call is one of _extract_data that went through its rules.
Extracted ==
  /\ call.fn = "_extract_data"
  /\ retval.done
  /\ call.is_json_response => JsonLoads(call.response).ok

\* C25: the rules of a step are applied in their order and every value
\* produced overwrites the entry of its name.  After the extraction a name
\* for which rules of the step produced a value holds the value of the last
\* such rule, coerced to its type, whether an earlier rule of the step or an
\* earlier step had written it or not; every other entry is as before.  A
\* rule flagged fulltext produces the text of the answer even if it has a
\* path, and the path "." produces the whole parsed value.
C25_LastWriteWins ==
  Extracted =>
    LET before == call.context
        after == retval.value
        names == {call.rules[i].name : i \in 1..Len(call.rules)}
        last(name) == CHOOSE i \in Producers(name) : \A j \in Producers(name) : j <= i
        is(text, rules) == call.response = text /\ call.rules = rules
                             /\ call.is_json_response
    IN  /\ retval.raised = "none"
        /\ Keys(after) = Keys(before) \cup {n \in names : Producers(n) # {}}
        /\ \A n \in Keys(after) :
             after.v.at[n] =
               IF n \in names /\ Producers(n) # {}
                 THEN _cast_type(FoundBy(last(n)), call.rules[last(n)].type)
                 ELSE before.v.at[n]
        /\ is(TextHigh, << Rule(s_score, <<".", "s", "c", "o", "r", "e">>, FALSE, "number"),
                           Rule(s_score, <<".", "f", "l", "a", "g">>, FALSE, "none") >>)
             => after.v.at[s_score] = PyBool(TRUE)
        /\ is(TextHigh, << Rule(s_raw, <<".", "s", "c", "o", "r", "e">>, TRUE, "none") >>)
             => after.v.at[s_raw] = Str(TextHigh)
        /\ is(TextHigh, << Rule(s_raw, <<".", "s", "c", "o", "r", "e">>, TRUE, "boolean"),
                           Rule(s_raw, <<".", "s", "c", "o", "r", "e">>, FALSE, "none") >>)
             => after.v.at[s_raw] = PyFloat(90)
        /\ is(TextHigh, << Rule(s_all, <<".">>, FALSE, "none"),
                           Rule(s_score, <<".", "s", "c", "o", "r", "e">>, FALSE, "none") >>)
             => /\ after.v.at[s_all] =
                     Dict(<<s_score, s_flag>>, s_score :> PyFloat(90) @@ s_flag :> PyBool(TRUE))
                /\ after.v.at[s_score] = PyFloat(90)

\* The context held a score and a raw text from an earlier step; two rules
\* of this step wrote score, and the value of the second one stands.
C25_Witness ==
  /\ call.fn = "_extract_data"
  /\ call.is_json_response
  /\ call.response = TextHigh
  /\ call.rules = << Rule(s_score, <<".", "s", "c", "o", "r", "e">>, FALSE, "number"),
                     Rule(s_score, <<".", "f", "l", "a", "g">>, FALSE, "none") >>
  /\ s_score \in Keys(call.context)
  /\ call.context.v.at[s_score] = PyFloat(50)
  /\ retval.done
  /\ retval.value.v.at[s_score] = PyBool(TRUE)
  /\ retval.value.v.at[s_raw] = Str(<<"o", "l", "d">>)

\* C26: a rule that produces no value writes nothing.  When the path of a
\* rule is not found in the parsed answer, or the value at the path is null,
\* or the rule has a path and the step is not in json mode, then, whatever
\* the type of the rule, its name stays absent or keeps the value it had
\* (unless another rule of the step produces one); it is not set to 0.0 or
\* to false; the other rules of the step are applied; and a condition on a
\* name that is absent afterwards has a base comparison that is false.
C26_NoValueNoWrite ==
  Extracted =>
    LET before == call.context
        after == retval.value
        rules == call.rules
        full == << Rule(s_score, <<".", "s", "c", "o", "r", "e">>, FALSE, "number"),
                   Rule(s_score, <<".", "m", "i", "s", "s", "i", "n", "g">>, FALSE, "number"),
                   Rule(s_flag, <<".", "f", "l", "a", "g">>, FALSE, "boolean"),
                   Rule(s_verdict, <<>>, FALSE, "number") >>
    IN  /\ retval.raised = "none"
        /\ \A i \in 1..Len(rules) :
             (FoundBy(i) = PyNone /\ Producers(rules[i].name) = {})
             => /\ rules[i].name \in Keys(after) <=> rules[i].name \in Keys(before)
                /\ rules[i].name \in Keys(before)
                     => after.v.at[rules[i].name] = before.v.at[rules[i].name]
        /\ \A i \in 1..Len(rules) : FoundBy(i) # PyNone => rules[i].name \in Keys(after)
        /\ \A i \in 1..Len(rules) : \A op \in OpNames : \A b \in Literals :
             rules[i].name \notin Keys(after)
             => /\ BaseResult(after, Leaf(rules[i].name, op, b)) = {FALSE}
                /\ _evaluate_single_condition(after, Leaf(rules[i].name, op, b)) = {FALSE}
        /\ (call.rules = full /\ call.response = TextNull /\ call.is_json_response)
             => /\ Keys(after) = Keys(before) \cup {s_flag}
                /\ after.v.at[s_flag] = PyBool(TRUE)
        /\ ~call.is_json_response
             => \A i \in 1..Len(rules) :
                  ~rules[i].fulltext => (FoundBy(i) = PyNone)

\* The score of the answer was null and two more rules found nothing: the
\* context, which held the input alone, gained the flag and nothing else.
C26_Witness ==
  /\ call.fn = "_extract_data"
  /\ call.is_json_response
  /\ call.response = TextNull
  /\ Len(call.rules) = 4
  /\ Keys(call.context) = {s_input}
  /\ retval.done
  /\ Keys(retval.value) = {s_input, s_flag}

\* Outside json mode the rules with a path wrote nothing, and the score of
\* an earlier step stood.
C26_WitnessNoJson ==
  /\ call.fn = "_extract_data"
  /\ ~call.is_json_response
  /\ call.response = TextHigh
  /\ Len(call.rules) = 3
  /\ s_score \in Keys(call.context)
  /\ retval.done
  /\ retval.value = call.context

\* The calls of the model.
Calls ==
  PickerCalls \cup CastCalls \cup SingleCalls \cup GateCalls \cup SubstCalls
    \cup ExtractCalls

\* No request; one call of one function.
InitCalls ==
  /\ InitWith({yaml_pipeline}, {[e \in Execs |-> <<>>]})
  /\ call \in Calls
  /\ retval = NoReturn
  /\ gather = NoGather

NextCalls ==
  \/ Call_consider_model
  \/ Call_cast_type
  \/ Call_evaluate_single_condition
  \/ Call_evaluate_conditions
  \/ Call_substitute_variables
  \/ Call_extract_data

SpecCalls == InitCalls /\ [][NextCalls]_vars

(***************************************************************************)
(* The gate of a step, its conditions evaluated in any order                *)
(***************************************************************************)

\* A gate under way: asyncio.gather runs one _evaluate_single_condition for
\* each condition of a list, and each of them may in turn gather the members
\* of its and list or its or list.  A place p in the tree is the sequence of
\* the indices that lead to it.  The answers of the interpreter to a is b on
\* equal ints and on equal strings are fixed for the call (shared).
Ready(cond) == [cond |-> cond, state |-> "ready", res |-> FALSE, branch |-> "none"]
Children(p) ==
  {q \in DOMAIN gather : Len(q) = Len(p) + 1 /\ SubSeq(q, 1, Len(p)) = p}
GatherLists == CondLists \cup {<<t>> : t \in Trees}
GatherCalls ==
  { [fn |-> "gather", context |-> c, conditions |-> l, shared |-> sh] :
      c \in CondContexts, l \in GatherLists, sh \in [{"int", "str"} -> BOOLEAN] }

\* The base comparison of a condition under the interpreter's answers.
BaseWith(ctx, cond, shared) ==
  LET possible == BaseResult(ctx, cond)
      same == shared[_lookup_path(ctx, cond.a).k]
  IN  IF possible = {TRUE} THEN TRUE
      ELSE IF possible = {FALSE} THEN FALSE
      ELSE IF cond.op = "is_not" THEN ~same ELSE same

\* A faulty join that takes every list for an and list.
JoinedAll(branch, results) == FALSE \notin results

\* all(and_results), any(or_results)
Joined(branch, results) ==
  IF branch = "and" THEN FALSE \notin results ELSE TRUE \in results

\* _evaluate_conditions up to its gather: True at once for no conditions,
\* else one evaluation for each condition.
GatherStart ==
  /\ call.fn = "gather"
  /\ ~retval.done
  /\ gather = NoGather
  /\ IF call.conditions = <<>>
       THEN retval' = Returned(PyBool(TRUE)) /\ UNCHANGED gather
       ELSE /\ gather' = [p \in {<<i>> : i \in DOMAIN call.conditions} |->
                            Ready(call.conditions[p[1]])]
            /\ UNCHANGED retval
  /\ UNCHANGED << requestVars, call >>

\* _evaluate_single_condition for the condition at p, up to its return or
\* its gather.
EvalNode(p) ==
  /\ gather[p].state = "ready"
  /\ LET c == gather[p].cond
         r == BaseWith(call.context, c, call.shared)
         list == IF r /\ c.and_ # <<>> THEN c.and_
                 ELSE IF ~r /\ c.or_ # <<>> THEN c.or_
                 ELSE <<>>
         spawned == {Append(p, j) : j \in DOMAIN list}
     IN  gather' = [q \in DOMAIN gather \cup spawned |->
                      IF q = p
                        THEN [ cond |-> c, res |-> r,
                               state |-> IF list = <<>> THEN "done" ELSE "waiting",
                               branch |-> IF list = <<>> THEN "none"
                                          ELSE IF r THEN "and" ELSE "or" ]
                      ELSE IF q \in spawned THEN Ready(list[q[Len(q)]])
                      ELSE gather[q]]
  /\ UNCHANGED << requestVars, call, retval >>

\* The gather of the condition at p has all its results: all() or any().
JoinNode(p) ==
  /\ gather[p].state = "waiting"
  /\ \A q \in Children(p) : gather[q].state = "done"
  /\ gather' = [gather EXCEPT ![p].state = "done",
                              ![p].res = Joined(gather[p].branch,
                                                {gather[q].res : q \in Children(p)})]
  /\ UNCHANGED << requestVars, call, retval >>

\* The gather of _evaluate_conditions has all its results: all(results).
GatherReturn ==
  /\ call.fn = "gather"
  /\ ~retval.done
  /\ gather # NoGather
  /\ \A p \in DOMAIN gather : Len(p) = 1 => gather[p].state = "done"
  /\ retval' = Returned(PyBool(\A p \in DOMAIN gather : Len(p) = 1 => gather[p].res))
  /\ UNCHANGED << requestVars, call, gather >>

InitGather ==
  /\ InitWith({yaml_pipeline}, {[e \in Execs |-> <<>>]})
  /\ call \in GatherCalls
  /\ retval = NoReturn
  /\ gather = NoGather

NextGather ==
  \/ GatherStart
  \/ \E p \in DOMAIN gather : EvalNode(p)
  \/ \E p \in DOMAIN gather : JoinNode(p)
  \/ GatherReturn

SpecGather == InitGather /\ [][NextGather]_vars

\* What a condition comes to under the interpreter's answers, as a function
\* of the condition and the context alone.
RECURSIVE Decide(_, _, _)
Decide(ctx, cond, shared) ==
  LET base == BaseWith(ctx, cond, shared)
  IN  IF base /\ cond.and_ # <<>>
        THEN \A i \in DOMAIN cond.and_ : Decide(ctx, cond.and_[i], shared)
      ELSE IF ~base /\ cond.or_ # <<>>
        THEN \E i \in DOMAIN cond.or_ : Decide(ctx, cond.or_[i], shared)
      ELSE base

\* C24: the evaluation of a gate only reads the context, and its result does
\* not depend on the order in which the top-level conditions and the members
\* of nested and lists and or lists are evaluated: no turn of the evaluation
\* changes the context or its arguments, every condition whose evaluation is
\* over has the result that the condition and the context alone decide, and
\* so has the gate when it returns.
C24_OrderIndependent ==
  /\ [][context' = context /\ call' = call]_vars
  /\ [](call.fn = "gather" =>
          /\ \A p \in DOMAIN gather :
               gather[p].state = "done" =>
                 gather[p].res = Decide(call.context, gather[p].cond, call.shared)
          /\ retval.done =>
               /\ retval.raised = "none"
               /\ retval.value =
                    PyBool(\A i \in DOMAIN call.conditions :
                             Decide(call.context, call.conditions[i], call.shared))
               /\ retval.value.v \in _evaluate_conditions(call.context, call.conditions))

\* Two top-level conditions, the first with an and list and an or list, were
\* evaluated to the end: the base of the first failed, the member of its or
\* list was gathered, and the gate returned true.
C24_Witness ==
  /\ call.fn = "gather"
  /\ call.conditions = << Cond(k_x, "eq", PyInt(100), <<Y2>>, <<Y3>>),
                          Leaf(k_y, "lt", PyInt(500)) >>
  /\ call.context = Ctx2(PyInt(0), PyInt(300))
  /\ retval.done
  /\ retval.value = PyBool(TRUE)
  /\ DOMAIN gather = {<<1>>, <<2>>, <<1, 1>>}
  /\ gather[<<1>>].branch = "or"

\* The second top-level condition was over while the first one still waited
\* for the member of its or list, which had not begun.
C24_WitnessInterleaved ==
  /\ call.fn = "gather"
  /\ DOMAIN gather = {<<1>>, <<2>>, <<1, 1>>}
  /\ gather[<<2>>].state = "done"
  /\ gather[<<1>>].state = "waiting"
  /\ gather[<<1, 1>>].state = "ready"

====
